---- MODULE Spec2Model ----
(***************************************************************************)
(* A model of the tmom-core rule engine: the condition tree of a RuleBlock *)
(* (engine.py), the account pre-flight validation                          *)
(* (broker/account_validation.py), RuleBlock.evaluate, Playbook.evaluate   *)
(* and the PrimitiveRegistry.                                              *)
(*                                                                         *)
(* Python values are records [t, v]: t is the Python type of the value and *)
(* v the number it stands for.  A dict is a function whose DOMAIN is the   *)
(* set of its keys; a list is a sequence.                                  *)
(***************************************************************************)
EXTENDS Integers, Sequences, FiniteSets, TLC

VARIABLES
    node,         \* SpecTree: the condition node handed to _evaluate_recursive
    results,      \* SpecTree: the results map (extension id -> bool)
    treeOut,      \* SpecTree: what _evaluate_recursive returned
    account,      \* SpecGuard: the account handed to validate_account_for_playbook
    fieldsArg,    \* SpecGuard: its fields_to_check argument
    guardOut,     \* SpecGuard: what validate_account_for_playbook did
    registry,     \* Spec: PrimitiveRegistry._registry (name -> Primitive object)
    heap,         \* Spec: the Primitive objects created so far
    blocks,       \* Spec: the RuleBlock objects constructed so far
    rules,        \* Spec: Playbook.rules (indices into blocks)
    lastEval,     \* Spec: the last RuleBlock.evaluate call and its outcome
    lastPlaybook, \* Spec: the last Playbook.evaluate call and its outcome
    lastNew,      \* SpecBuild: the last RuleBlock construction and its outcome
    constructed,  \* SpecBuild: (Primitive object, field) of every Extension made
    hazards,      \* the configuration hazards PrimitiveRegistry.register flagged
    hydrateIn,    \* SpecHydrate: the ContextBuilder and the arguments of hydrate
    hydrateOut,   \* SpecHydrate: what hydrate returned and the provider calls
    engines,      \* SpecEngine: the run_market_engine tasks started so far
    userTookAction, \* SpecEngine: state.user_took_action
    published,    \* SpecEngine: the payloads sent to the connected clients
    tickLog,      \* SpecEngine: the market_handler calls made so far
    compareIn,    \* SpecCompare: the params and context of the call
    compareOut,   \* SpecCompare: what account_comparison_evaluator returned
    callIn,       \* the evaluator specifications: the arguments of the call
    callOut,      \* the evaluator specifications: what the call returned
    conn,         \* SpecConnect: the WebSocketClient inside connect
    repair        \* SpecRepair: the RuleParser inside _validate_with_repair

treeVars == <<node, results, treeOut>>
guardVars == <<account, fieldsArg, guardOut>>
engineVars == <<registry, heap, blocks, rules, lastEval, lastPlaybook>>
buildVars == <<lastNew, constructed, hazards>>
hydrateVars == <<hydrateIn, hydrateOut>>
tickVars == <<engines, userTookAction, published, tickLog>>
compareVars == <<compareIn, compareOut>>
laterVars == <<callIn, callOut, conn, repair>>
restVars == <<buildVars, hydrateVars, tickVars, compareVars, laterVars>>
vars == <<node, results, treeOut, account, fieldsArg, guardOut,
          registry, heap, blocks, rules, lastEval, lastPlaybook, restVars>>

(***************************************************************************)
(* Bounds of the model.                                                    *)
(***************************************************************************)
\* longest child list of a gate of the flat condition nodes
MaxChildren == 2
\* deepest nesting of gates inside gates
MaxDepth == 2

(***************************************************************************)
(* Python dicts and lists.                                                 *)
(***************************************************************************)
EmptyDict == [k \in {} |-> FALSE]

\* d.get(k, default)
DictGet(d, k, default) == IF k \in DOMAIN d THEN d[k] ELSE default

\* d[k] = v on a copy of d
DictPut(d, k, v) == [x \in DOMAIN d \cup {k} |-> IF x = k THEN v ELSE d[x]]

\* the lists over S of length at most n
ListsUpTo(S, n) == UNION {[1..m -> S] : m \in 0..n}

\* the dicts with keys among K and values in V
DictsOver(K, V) == UNION {[S -> V] : S \in SUBSET K}

(***************************************************************************)
(* Condition nodes (engine.py, RuleBlock.conditions).  A node is a str (an *)
(* extension id), a dict with the optional keys all / any / none, or some  *)
(* other value (a number, None), which evaluates to False.                 *)
(***************************************************************************)
GateKeys == {"all", "any", "none"}

Leaf(id) == [kind |-> "str", id |-> id, d |-> EmptyDict]
Dict(d) == [kind |-> "dict", id |-> "", d |-> d]
Gate(k, children) == Dict([x \in {k} |-> children])
OtherNode == [kind |-> "other", id |-> "", d |-> EmptyDict]

RECURSIVE _evaluate_recursive(_, _)

\* self._evaluate_recursive(n, results) for a child n of a gate
ChildValueDropsResults(n, res) ==
    _evaluate_recursive(n, IF n.kind = "dict" THEN EmptyDict ELSE res)

ChildValue(n, res) == _evaluate_recursive(n, res)

\* all(self._evaluate_recursive(n, results) for n in nodes)
PyAll(nodes, res) == \A i \in DOMAIN nodes : ChildValue(nodes[i], res)

\* any(self._evaluate_recursive(n, results) for n in nodes)
PyAny(nodes, res) == \E i \in DOMAIN nodes : ChildValue(nodes[i], res)

\* line 151: if all_nodes and not all(...): return False
AllGateFails(all_nodes, res) == all_nodes # <<>> /\ ~PyAll(all_nodes, res)

\* line 153 without its emptiness test: an empty `any` fails the node
AnyGateFailsWhenEmpty(any_nodes, res) == ~PyAny(any_nodes, res)

\* line 153: if any_nodes and not any(...): return False
AnyGateFails(any_nodes, res) == any_nodes # <<>> /\ ~PyAny(any_nodes, res)

\* line 155 with all() for any(): `none` fails only when every child is true
NoneGateFailsOnAll(none_nodes, res) == none_nodes # <<>> /\ PyAll(none_nodes, res)

\* line 155: if none_nodes and any(...): return False
NoneGateFails(none_nodes, res) == none_nodes # <<>> /\ PyAny(none_nodes, res)

_evaluate_recursive(n, res) ==
    IF n.kind = "str" THEN DictGet(res, n.id, FALSE)
    ELSE IF n.kind # "dict" THEN FALSE
    ELSE LET all_nodes == DictGet(n.d, "all", <<>>)
             any_nodes == DictGet(n.d, "any", <<>>)
             none_nodes == DictGet(n.d, "none", <<>>)
         IN  IF AllGateFails(all_nodes, res) THEN FALSE
             ELSE IF AnyGateFails(any_nodes, res) THEN FALSE
             ELSE IF NoneGateFails(none_nodes, res) THEN FALSE
             ELSE TRUE

(***************************************************************************)
(* The inputs of SpecTree.                                                 *)
(***************************************************************************)
TreeIds == {"a", "b", "c"}
TreeLeaves == {Leaf(i) : i \in TreeIds}
Atoms == TreeLeaves \cup {OtherNode}

\* a node with any of the three gates, each over the leaves a and b
FlatNodes ==
    {Dict(d) : d \in DictsOver(GateKeys, ListsUpTo({Leaf("a"), Leaf("b")}, MaxChildren))}

\* one gate around a node of the level below, alone or beside a leaf
RECURSIVE NestedNodes(_)
NestedNodes(depth) ==
    IF depth = 0 THEN Atoms
    ELSE LET below == NestedNodes(depth - 1)
             beside == {Leaf("b"), Leaf("c")}
         IN  {Gate(k, <<x>>) : k \in GateKeys, x \in below}
             \cup {Gate(k, <<x, y>>) : k \in GateKeys, x \in below, y \in beside}
             \cup {Gate(k, <<y, x>>) : k \in GateKeys, x \in below, y \in beside}

TreeNodes(depth) == Atoms \cup FlatNodes \cup UNION {NestedNodes(dp) : dp \in 1..depth}

\* results maps: every extension evaluated, or c never evaluated
ResultMaps == [TreeIds -> BOOLEAN] \cup [{"a", "b"} -> BOOLEAN]

NoTreeOut == [done |-> FALSE, value |-> FALSE]

TreeIdle == node = OtherNode /\ results = EmptyDict /\ treeOut = NoTreeOut

(***************************************************************************)
(* SpecTree: _evaluate_recursive applied to a node and a results map.      *)
(***************************************************************************)
EvaluateTree ==
    /\ ~treeOut.done
    /\ treeOut' = [done |-> TRUE, value |-> _evaluate_recursive(node, results)]
    /\ UNCHANGED <<node, results, guardVars, engineVars, restVars>>

(***************************************************************************)
(* Python values.                                                          *)
(***************************************************************************)
PyInt(n) == [t |-> "int", v |-> n]
PyBool(b) == [t |-> "bool", v |-> IF b THEN 1 ELSE 0]
\* a str holding the decimal text of n, as the broker sends its amounts
PyStr(n) == [t |-> "str", v |-> n]
PyNone == [t |-> "none", v |-> 0]

\* d.get(k): None when the key is missing
Get(d, k) == DictGet(d, k, PyNone)

\* bool(x): None, False and 0 are false; a str holding a number is not empty
Truthy(x) ==
    CASE x.t = "none" -> FALSE
      [] x.t = "bool" -> x.v = 1
      [] x.t = "int" -> x.v # 0
      [] OTHER -> TRUE

\* float(x): TypeError on None
PyFloat(x) == IF x.t = "none" THEN [ok |-> FALSE, v |-> 0] ELSE [ok |-> TRUE, v |-> x.v]

\* x >= n for an int n: TypeError when x is None or a str
PyGE(x, n) ==
    IF x.t \in {"none", "str"} THEN [ok |-> FALSE, v |-> FALSE]
    ELSE [ok |-> TRUE, v |-> x.v >= n]

(***************************************************************************)
(* broker/account_validation.py                                            *)
(***************************************************************************)
GLOBAL_ACCOUNT_FIELDS ==
    {"trading_blocked", "trade_suspended_by_user", "pattern_day_trader",
     "daytrade_count", "buying_power", "cash"}

\* the day-trade count at which a pattern day trader is blocked
PDTLimit == 3

MsgBlocked == "Account is trading blocked."
MsgSuspended == "Trades suspended by user."
MsgPDT == "Pattern Day Trader limit reached."
MsgBuyingPower == "No buying power available."
MsgCash == "No cash available."

\* fields_to_check as passed: not given (None) or a list of field names
FieldsDefault == [given |-> FALSE, fields |-> {}]
FieldsGiven(S) == [given |-> TRUE, fields |-> S]

\* line 22: fields_to_check = fields_to_check or GLOBAL_ACCOUNT_FIELDS
FieldsToCheck(arg) ==
    IF arg.given /\ arg.fields # {} THEN arg.fields ELSE GLOBAL_ACCOUNT_FIELDS

Raised == [raised |-> TRUE, conflicts |-> <<>>]
Returned(c) == [raised |-> FALSE, conflicts |-> c]

\* lines 24-25
CheckBlocked(acct, ftc, c) ==
    IF "trading_blocked" \in ftc /\ Truthy(Get(acct, "trading_blocked"))
    THEN Append(c, MsgBlocked) ELSE c

\* lines 27-28
CheckSuspended(acct, ftc, c) ==
    IF "trade_suspended_by_user" \in ftc /\ Truthy(Get(acct, "trade_suspended_by_user"))
    THEN Append(c, MsgSuspended) ELSE c

\* lines 30-32
CheckPDT(acct, ftc, c) ==
    IF "pattern_day_trader" \in ftc /\ Truthy(Get(acct, "pattern_day_trader"))
       /\ "daytrade_count" \in ftc
    THEN LET ge == PyGE(DictGet(acct, "daytrade_count", PyInt(0)), PDTLimit)
         IN  IF ~ge.ok THEN Raised
             ELSE Returned(IF ge.v THEN Append(c, MsgPDT) ELSE c)
    ELSE Returned(c)

\* lines 34-36 and 38-39: float(account.get(field, 0)) <= 0
CheckAmount(acct, ftc, c, fld, msg) ==
    IF fld \in ftc
    THEN LET f == PyFloat(DictGet(acct, fld, PyInt(0)))
         IN  IF ~f.ok THEN Raised
             ELSE Returned(IF f.v <= 0 THEN Append(c, msg) ELSE c)
    ELSE Returned(c)

validate_account_for_playbook(acct, arg) ==
    LET ftc == FieldsToCheck(arg)
        c2 == CheckSuspended(acct, ftc, CheckBlocked(acct, ftc, <<>>))
        r3 == CheckPDT(acct, ftc, c2)
        r4 == IF r3.raised THEN Raised
              ELSE CheckAmount(acct, ftc, r3.conflicts, "buying_power", MsgBuyingPower)
    IN  IF r4.raised THEN Raised
        ELSE CheckAmount(acct, ftc, r4.conflicts, "cash", MsgCash)

(***************************************************************************)
(* The inputs of SpecGuard.                                                *)
(***************************************************************************)
\* amounts range over -MaxAmount .. MaxAmount
MaxAmount == 1
\* day-trade counts range over PDTLimit - 1 .. MaxDayTrades
MaxDayTrades == 3

Absent == [t |-> "absent", v |-> 0]

FlagValues == {Absent, PyBool(TRUE), PyBool(FALSE)}
AmountValues ==
    {Absent, PyNone, PyStr(0), PyStr(MaxAmount)}
        \cup {PyInt(n) : n \in (0 - MaxAmount)..MaxAmount}
DayTradeValues ==
    {Absent, PyNone} \cup {PyInt(n) : n \in (PDTLimit - 1)..MaxDayTrades}

\* the dict holding the fields of r that are not Absent
AsDict(r) == [k \in {x \in DOMAIN r : r[x] # Absent} |-> r[k]]

GuardAccounts ==
    {AsDict(r) : r \in
        [trading_blocked : FlagValues,
         trade_suspended_by_user : FlagValues,
         pattern_day_trader : FlagValues \cup {PyNone},
         daytrade_count : DayTradeValues,
         buying_power : AmountValues,
         cash : AmountValues]}

FieldsArgs ==
    {FieldsDefault, FieldsGiven({}), FieldsGiven(GLOBAL_ACCOUNT_FIELDS),
     FieldsGiven({"cash"}), FieldsGiven({"pattern_day_trader"}),
     FieldsGiven(GLOBAL_ACCOUNT_FIELDS \ {"buying_power"})}

NoGuardOut == [done |-> FALSE, raised |-> FALSE, conflicts |-> <<>>]

GuardIdle == account = EmptyDict /\ fieldsArg = FieldsDefault /\ guardOut = NoGuardOut

(***************************************************************************)
(* SpecGuard: validate_account_for_playbook applied to an account.         *)
(***************************************************************************)
ValidateAccount ==
    /\ ~guardOut.done
    /\ LET r == validate_account_for_playbook(account, fieldsArg)
       IN  guardOut' = [done |-> TRUE, raised |-> r.raised, conflicts |-> r.conflicts]
    /\ UNCHANGED <<account, fieldsArg, treeVars, engineVars, restVars>>

(***************************************************************************)
(* The evaluation context: the market fields of the base context and the   *)
(* optional `account` entry.                                               *)
(***************************************************************************)
Context(hasAccount, acct, market) ==
    [hasAccount |-> hasAccount, account |-> acct, market |-> market]

(***************************************************************************)
(* primitives.py: the evaluators.  An evaluator returns "true" or "false"  *)
(* or raises ("raise").                                                    *)
(***************************************************************************)
Outcome(b) == IF b THEN "true" ELSE "false"

Ops == {">", "<", "==", ">=", "<="}

\* the chain of `if op == ...` of both evaluators, for numbers
Compare(l, op, r) ==
    CASE op = ">" -> l > r
      [] op = "<" -> l < r
      [] op = "==" -> l = r
      [] op = ">=" -> l >= r
      [] op = "<=" -> l <= r

\* lines 74-80: a str operand is cast with float()
CastStr(x) == IF x.t = "str" THEN [t |-> "float", v |-> x.v] ELSE x

\* primitives.py lines 31-97, for a `right` that is a number
comparison_evaluator(params, ctx) ==
    IF ~({"left", "right", "op"} \subseteq DOMAIN params) THEN "raise"
    ELSE LET left == CastStr(DictGet(ctx.market, params.left, PyInt(0)))
             right == CastStr(params.right)
         IN  IF left.t # right.t THEN "false"
             ELSE IF params.op \notin Ops THEN "raise"
             ELSE IF left.t = "none" /\ params.op # "==" THEN "raise"
             ELSE Outcome(Compare(left.v, params.op, right.v))

\* a str with letters in it
PyText == [t |-> "text", v |-> 0]

\* account_comparison reading a missing field as 0 instead of raising
account_comparison_defaulted(params, ctx) ==
    LET acct == IF ctx.hasAccount THEN ctx.account ELSE EmptyDict
    IN  IF ~({"field", "op", "value"} \subseteq DOMAIN params) THEN "raise"
        ELSE IF params.value.t = "none" THEN "false"
        ELSE IF params.op \notin Ops THEN "raise"
        ELSE Outcome(Compare(DictGet(acct, params.field, PyInt(0)).v,
                             params.op, params.value.v))

\* primitives.py lines 207-263.  A `value` str without letters is cast with
\* float(); one with letters is replaced by account.get('value', 0)
\* (line 245), and comparing the float with a str or None raises, except
\* for `==`.
account_comparison_evaluator(params, ctx) ==
    LET acct == IF ctx.hasAccount THEN ctx.account ELSE EmptyDict
    IN  IF ~({"field", "op", "value"} \subseteq DOMAIN params) THEN "raise"
        ELSE IF params.field \notin DOMAIN acct THEN "raise"
        ELSE IF params.value.t = "none" THEN "false"
        ELSE LET value == IF params.value.t = "text"
                          THEN DictGet(acct, "value", PyInt(0))
                          ELSE params.value
                 account_value == PyFloat(acct[params.field])
             IN  IF ~account_value.ok THEN "raise"
                 ELSE IF params.op \notin Ops THEN "raise"
                 ELSE IF value.t \in {"none", "str", "text"}
                 THEN IF params.op = "==" THEN "false" ELSE "raise"
                 ELSE Outcome(Compare(account_value.v, params.op, value.v))

Evaluators == {"comparison_evaluator", "account_comparison_evaluator"}

\* Primitive.evaluate: self.evaluator(params, context)
PrimitiveEvaluate(prim, params, ctx) ==
    IF prim.evaluator = "comparison_evaluator"
    THEN comparison_evaluator(params, ctx)
    ELSE account_comparison_evaluator(params, ctx)

(***************************************************************************)
(* engine.py: Extension.  An Extension holds the Primitive object it       *)
(* resolved when it was constructed (an index into heap).                  *)
(***************************************************************************)
\* an Extension looking its primitive up in the registry at each call
ExtensionEvaluateLateBound(ext, h, ctx) ==
    IF ext.primitive_name \in DOMAIN registry
    THEN PrimitiveEvaluate(h[registry[ext.primitive_name]], ext.params, ctx)
    ELSE "raise"

\* Extension.evaluate: self.primitive.evaluate(self.params, context)
ExtensionEvaluate(ext, h, ctx) == PrimitiveEvaluate(h[ext.primitive], ext.params, ctx)

(***************************************************************************)
(* engine.py: RuleBlock.evaluate.                                          *)
(***************************************************************************)
\* the dict comprehension of line 176: the extensions in order, up to the
\* first one that raises
RECURSIVE EvaluateExtensions(_, _, _, _)
EvaluateExtensions(exts, h, ctx, acc) ==
    IF exts = <<>> THEN acc
    ELSE LET ext == Head(exts)
             r == ExtensionEvaluate(ext, h, ctx)
             called == Append(acc.calls, ext.id)
         IN  IF r = "raise"
             THEN [raised |-> TRUE, results |-> acc.results, calls |-> called]
             ELSE EvaluateExtensions(Tail(exts), h, ctx,
                      [raised |-> FALSE,
                       results |-> DictPut(acc.results, ext.id, r = "true"),
                       calls |-> called])

EvalResult(outcome, guardRan, conflicts, calls, treeRan) ==
    [outcome |-> outcome, guardRan |-> guardRan, conflicts |-> conflicts,
     calls |-> calls, treeRan |-> treeRan]

\* lines 175-179: the extensions, then the conditions tree
EvaluateBody(block, h, ctx, guardRan) ==
    LET e == EvaluateExtensions(block.extensions, h, ctx,
                 [raised |-> FALSE, results |-> EmptyDict, calls |-> <<>>])
    IN  IF e.raised THEN EvalResult("raise", guardRan, <<>>, e.calls, FALSE)
        ELSE EvalResult(Outcome(_evaluate_recursive(block.conditions, e.results)),
                        guardRan, <<>>, e.calls, TRUE)

\* lines 168-169: account = context.get("account"); if account:
AccountGuardApplies(ctx) == ctx.hasAccount /\ ctx.account # EmptyDict

\* lines 168-173 once the guard applies
GuardedEvaluate(block, h, ctx) ==
    LET v == validate_account_for_playbook(ctx.account, FieldsDefault)
    IN  IF v.raised THEN EvalResult("raise", TRUE, <<>>, <<>>, FALSE)
        ELSE IF v.conflicts # <<>>
        THEN EvalResult("false", TRUE, v.conflicts, <<>>, FALSE)
        ELSE EvaluateBody(block, h, ctx, TRUE)

\* RuleBlock.evaluate
RuleBlockEvaluate(block, h, ctx) ==
    IF AccountGuardApplies(ctx) THEN GuardedEvaluate(block, h, ctx)
    ELSE EvaluateBody(block, h, ctx, FALSE)

(***************************************************************************)
(* engine.py: Primitive, PrimitiveRegistry, Extension.__init__ and         *)
(* RuleBlock.__init__.                                                     *)
(***************************************************************************)
\* Primitive.__init__
Primitive(name, evaluator, required_account_fields) ==
    [name |-> name, evaluator |-> evaluator,
     required_account_fields |-> required_account_fields]

Range(q) == {q[i] : i \in DOMAIN q}

\* list(set(q)): the elements of q, each once
ListOfSet(q) ==
    CHOOSE l \in [1..Cardinality(Range(q)) -> Range(q)] : Range(l) = Range(q)

\* lines 67-72: the `field` / `fields` values of params appended to the list
FieldsOfParams(params) ==
    (IF "field" \in DOMAIN params THEN <<params.field>> ELSE <<>>)
        \o (IF "fields" \in DOMAIN params THEN params.fields ELSE <<>>)

\* Extension.__init__ leaving the registry lookup to evaluate: an unknown
\* name yields an Extension that holds no Primitive object
ExtensionDeferredLookup(primitive_name, params, ext_id, reg, h) ==
    IF primitive_name \notin DOMAIN reg
    THEN [ok |-> TRUE,
          ext |-> [id |-> ext_id, primitive_name |-> primitive_name,
                   params |-> params, primitive |-> 0],
          heap |-> h]
    ELSE LET p == reg[primitive_name]
             fields == ListOfSet(h[p].required_account_fields \o FieldsOfParams(params))
         IN  [ok |-> TRUE,
              ext |-> [id |-> ext_id, primitive_name |-> primitive_name,
                       params |-> params, primitive |-> p],
              heap |-> [h EXCEPT ![p].required_account_fields = fields]]

\* Extension.__init__: the registry lookup, then the primitive's
\* required_account_fields extended and deduplicated
Extension(primitive_name, params, ext_id, reg, h) ==
    IF primitive_name \notin DOMAIN reg
    THEN [ok |-> FALSE, ext |-> <<>>, heap |-> h]
    ELSE LET p == reg[primitive_name]
             fields == ListOfSet(h[p].required_account_fields \o FieldsOfParams(params))
         IN  [ok |-> TRUE,
              ext |-> [id |-> ext_id, primitive_name |-> primitive_name,
                       params |-> params, primitive |-> p],
              heap |-> [h EXCEPT ![p].required_account_fields = fields]]

\* self.extensions[extension.id] = extension: a new key goes last, an old
\* key keeps its place
ExtensionsPut(exts, ext) ==
    IF \E i \in DOMAIN exts : exts[i].id = ext.id
    THEN [i \in DOMAIN exts |-> IF exts[i].id = ext.id THEN ext ELSE exts[i]]
    ELSE Append(exts, ext)

\* RuleBlock._load_extensions: stops at the first Extension that raises
RECURSIVE _load_extensions(_, _, _, _)
_load_extensions(todo, reg, h, exts) ==
    IF todo = <<>> THEN [ok |-> TRUE, extensions |-> exts, heap |-> h]
    ELSE LET e == Extension(Head(todo).primitive, Head(todo).params, Head(todo).id, reg, h)
         IN  IF ~e.ok THEN [ok |-> FALSE, extensions |-> exts, heap |-> e.heap]
             ELSE _load_extensions(Tail(todo), reg, e.heap, ExtensionsPut(exts, e.ext))

\* RuleBlock.__init__
RuleBlock(category, skeleton, reg, h) ==
    LET l == _load_extensions(DictGet(skeleton, "extensions", <<>>), reg, h, <<>>)
    IN  [ok |-> l.ok,
         block |-> [name |-> DictGet(skeleton, "name", "Unnamed Rule"),
                    category |-> category,
                    extensions |-> l.extensions,
                    conditions |-> DictGet(skeleton, "conditions", Dict(EmptyDict))],
         heap |-> l.heap]

(***************************************************************************)
(* engine.py: Playbook.evaluate.                                           *)
(***************************************************************************)
RuleCategory == {"ENTRY", "PROCESS", "RISK", "DISCIPLINE", "EXIT", "OVERRIDES"}

\* lines 234-235: if rule.category not in results: results[rule.category] = []
WithCategory(res, cat) == IF cat \in DOMAIN res THEN res ELSE DictPut(res, cat, <<>>)

\* lines 238-239 recording every rule, triggered or not
RecordTriggeredAlways(res, rule, outcome) ==
    [res EXCEPT ![rule.category] = Append(@, rule.name)]

\* lines 238-239: if rule.evaluate(context): results[rule.category].append(rule.name)
RecordTriggered(res, rule, outcome) ==
    IF outcome = "true" THEN [res EXCEPT ![rule.category] = Append(@, rule.name)]
    ELSE res

\* lines 234-239 creating the category's list only when a rule triggers
PlaybookStepLazyCategory(res, rule, outcome) ==
    IF outcome = "true" THEN RecordTriggered(WithCategory(res, rule.category), rule, outcome)
    ELSE res

\* lines 234-239: one pass of the loop, for a rule whose evaluate returned
PlaybookStep(res, rule, outcome) ==
    RecordTriggered(WithCategory(res, rule.category), rule, outcome)

\* Playbook.evaluate: the loop over self.rules; an exception of
\* rule.evaluate is not caught and ends the call
RECURSIVE PlaybookEvaluateFrom(_, _, _, _)
PlaybookEvaluateFrom(todo, h, ctx, acc) ==
    IF todo = <<>> THEN acc
    ELSE LET rule == Head(todo)
             r == RuleBlockEvaluate(rule, h, ctx)
             seen == Append(acc.outcomes,
                        [name |-> rule.name, category |-> rule.category,
                         outcome |-> r.outcome])
         IN  IF r.outcome = "raise"
             THEN [raised |-> TRUE, result |-> EmptyDict, outcomes |-> seen]
             ELSE PlaybookEvaluateFrom(Tail(todo), h, ctx,
                      [raised |-> FALSE,
                       result |-> PlaybookStep(acc.result, rule, r.outcome),
                       outcomes |-> seen])

PlaybookEvaluate(rs, h, ctx) ==
    PlaybookEvaluateFrom(rs, h, ctx,
        [raised |-> FALSE, result |-> EmptyDict, outcomes |-> <<>>])

(***************************************************************************)
(* The inputs of Spec and SpecPlaybook.                                    *)
(***************************************************************************)
\* objects (Primitive and RuleBlock) created in one run
MaxObjects == 3
\* rules added to the playbook
MaxRules == 2

PrimNames == {"comparison", "account_comparison"}

\* the primitives a run may register: those of llm_layer/example.py, and
\* `comparison` registered again with another evaluator
Registrations ==
    {[name |-> "comparison", evaluator |-> "comparison_evaluator"],
     [name |-> "account_comparison", evaluator |-> "account_comparison_evaluator"],
     [name |-> "comparison", evaluator |-> "account_comparison_evaluator"]}

ExtPrice ==
    [id |-> "px", primitive |-> "comparison",
     params |-> [left |-> "price", op |-> ">", right |-> PyInt(0)]]
ExtEquity ==
    [id |-> "eq", primitive |-> "account_comparison",
     params |-> [field |-> "equity", op |-> ">=", value |-> PyInt(1)]]
ExtUnknown ==
    [id |-> "ma", primitive |-> "moving_average",
     params |-> [field |-> "cash", op |-> ">", value |-> PyInt(0)]]

SkeletonA ==
    [name |-> "A", extensions |-> <<ExtPrice>>,
     conditions |-> Gate("all", <<Leaf("px")>>)]
SkeletonB ==
    [name |-> "B", extensions |-> <<ExtEquity>>,
     conditions |-> Gate("none", <<Leaf("eq")>>)]
SkeletonC ==
    [name |-> "C", extensions |-> <<ExtEquity, ExtPrice>>,
     conditions |-> Gate("any", <<Leaf("eq"), Gate("all", <<Leaf("px")>>)>>)]
\* a skeleton with neither name nor conditions
SkeletonBare == [extensions |-> <<>>]
\* a skeleton whose second extension names no registered primitive
SkeletonD ==
    [name |-> "D", extensions |-> <<ExtEquity, ExtUnknown>>,
     conditions |-> Gate("all", <<Leaf("eq"), Leaf("ma")>>)]

Skeletons == {SkeletonA, SkeletonB, SkeletonC, SkeletonBare, SkeletonD}

\* the rules an LLM response may list (rule_parser.py line 42), each with
\* its category
RuleDefs ==
    {[category |-> "ENTRY", skeleton |-> SkeletonA],
     [category |-> "ENTRY", skeleton |-> SkeletonB],
     [category |-> "RISK", skeleton |-> SkeletonC],
     [category |-> "RISK", skeleton |-> SkeletonA],
     [category |-> "EXIT", skeleton |-> SkeletonBare],
     [category |-> "ENTRY", skeleton |-> SkeletonD]}

\* the category RuleParser gives a rule by default (rule_parser.py line 15)
DefaultCategory == "ENTRY"

\* an account with no field, one whose buying power is None, and the
\* accounts with buying power, with or without cash and equity
EngineAccounts ==
    {EmptyDict, [buying_power |-> PyNone, cash |-> PyInt(0)]} \cup
    {AsDict(r) : r \in
        [buying_power : {PyInt(MaxAmount)},
         cash : {PyInt(0), PyInt(MaxAmount)},
         equity : {Absent, PyStr(MaxAmount)}]}

Markets == {AsDict(r) : r \in [price : {Absent, PyInt(MaxAmount)}]}

Contexts ==
    {Context(TRUE, a, m) : a \in EngineAccounts, m \in Markets}
        \cup {Context(FALSE, EmptyDict, m) : m \in Markets}

NoContext == Context(FALSE, EmptyDict, EmptyDict)

NoEval ==
    [done |-> FALSE, block |-> 0, ctx |-> NoContext, outcome |-> "none",
     guardRan |-> FALSE, conflicts |-> <<>>, calls |-> <<>>, treeRan |-> FALSE]

NoPlaybookEval ==
    [done |-> FALSE, ctx |-> NoContext, after |-> NoContext, nrules |-> 0,
     raised |-> FALSE, result |-> EmptyDict, outcomes |-> <<>>]

EngineIdle ==
    /\ registry = EmptyDict
    /\ heap = <<>>
    /\ blocks = <<>>
    /\ rules = <<>>
    /\ lastEval = NoEval
    /\ lastPlaybook = NoPlaybookEval

(***************************************************************************)
(* Spec: the registry, RuleBlock construction and RuleBlock.evaluate.      *)
(***************************************************************************)
\* register handing the field requirements of the replaced primitive over
\* to the new one
RegisterCarryingFields ==
    \E p \in Registrations :
        /\ Len(heap) + Len(blocks) < MaxObjects
        /\ heap' = Append(heap,
                       Primitive(p.name, p.evaluator,
                                 IF p.name \in DOMAIN registry
                                 THEN heap[registry[p.name]].required_account_fields
                                 ELSE <<>>))
        /\ registry' = DictPut(registry, p.name, Len(heap) + 1)
        /\ UNCHANGED <<blocks, rules, lastEval, lastPlaybook, treeVars, guardVars,
                     restVars>>

\* PrimitiveRegistry.register(Primitive(name, evaluator))
Register ==
    \E p \in Registrations :
        /\ Len(heap) + Len(blocks) < MaxObjects
        /\ heap' = Append(heap, Primitive(p.name, p.evaluator, <<>>))
        /\ registry' = DictPut(registry, p.name, Len(heap) + 1)
        /\ UNCHANGED <<blocks, rules, lastEval, lastPlaybook, treeVars, guardVars,
                     restVars>>

\* RuleBlock(category, skeleton): when an Extension raises, no RuleBlock is
\* made, and the primitives the earlier extensions touched stay touched
NewRuleBlock ==
    \E skeleton \in Skeletons :
        /\ Len(heap) + Len(blocks) < MaxObjects
        /\ LET r == RuleBlock(DefaultCategory, skeleton, registry, heap)
           IN  /\ heap' = r.heap
               /\ blocks' = IF r.ok THEN Append(blocks, r.block) ELSE blocks
        /\ UNCHANGED <<registry, rules, lastEval, lastPlaybook, treeVars, guardVars,
                     restVars>>

\* block.evaluate(context)
EvaluateRule ==
    \E b \in DOMAIN blocks, ctx \in Contexts :
        /\ LET r == RuleBlockEvaluate(blocks[b], heap, ctx)
           IN  lastEval' = [done |-> TRUE, block |-> b, ctx |-> ctx,
                            outcome |-> r.outcome, guardRan |-> r.guardRan,
                            conflicts |-> r.conflicts, calls |-> r.calls,
                            treeRan |-> r.treeRan]
        /\ UNCHANGED <<registry, heap, blocks, rules, lastPlaybook, treeVars, guardVars,
                     restVars>>

(***************************************************************************)
(* SpecPlaybook: a Playbook filled rule by rule and evaluated, with the    *)
(* primitives registered at start-up (llm_layer/example.py lines 51-73).   *)
(***************************************************************************)
StartupHeap ==
    <<Primitive("comparison", "comparison_evaluator", <<>>),
      Primitive("account_comparison", "account_comparison_evaluator", <<>>)>>
StartupRegistry == [n \in PrimNames |-> IF n = "comparison" THEN 1 ELSE 2]

\* rule_parser.py lines 49-50: RuleBlock(category, skeleton), then add_rule
AddRule ==
    \E def \in RuleDefs :
        /\ Len(rules) < MaxRules
        /\ LET r == RuleBlock(def.category, def.skeleton, registry, heap)
           IN  /\ heap' = r.heap
               /\ rules' = IF r.ok THEN Append(rules, r.block) ELSE rules
        /\ UNCHANGED <<registry, blocks, lastEval, lastPlaybook, treeVars, guardVars,
                     restVars>>

\* playbook.evaluate(context) with RuleBlock.evaluate reading the account by
\* context.setdefault("account", {}): a context without account gets one
EvaluatePlaybookDefaultingAccount ==
    \E ctx \in Contexts :
        /\ LET r == PlaybookEvaluate(rules, heap, ctx)
           IN  lastPlaybook' = [done |-> TRUE, ctx |-> ctx,
                                after |-> [ctx EXCEPT !.hasAccount = TRUE],
                                nrules |-> Len(rules),
                                raised |-> r.raised, result |-> r.result,
                                outcomes |-> r.outcomes]
        /\ UNCHANGED <<registry, heap, blocks, rules, lastEval, treeVars, guardVars,
                     restVars>>

\* playbook.evaluate(context).  ctx is the context passed and `after` the
\* same dict when the call is over: lines 160-179 and 230-241 only read it
\* (context.get, context.keys), and the evaluators of primitives.py assign
\* to their locals only.
EvaluatePlaybook ==
    \E ctx \in Contexts :
        /\ LET r == PlaybookEvaluate(rules, heap, ctx)
           IN  lastPlaybook' = [done |-> TRUE, ctx |-> ctx, after |-> ctx,
                                nrules |-> Len(rules),
                                raised |-> r.raised, result |-> r.result,
                                outcomes |-> r.outcomes]
        /\ UNCHANGED <<registry, heap, blocks, rules, lastEval, treeVars, guardVars,
                     restVars>>

(***************************************************************************)
(* SpecBuild: Primitive objects registered with their initial              *)
(* required_account_fields, and RuleBlocks constructed on them.            *)
(***************************************************************************)
\* the required_account_fields a Primitive is constructed with: none
\* (llm_layer/example.py), two fields (entry_example.py line 37), and a list
\* that names a field twice
InitialFields == {<<>>, <<"buying_power", "cash">>, <<"cash", "cash">>}

\* an extension whose params carry a `fields` list
ExtFields ==
    [id |-> "fs", primitive |-> "account_comparison",
     params |-> [fields |-> <<"cash", "equity">>, op |-> ">", value |-> PyInt(0)]]

\* a skeleton whose tree names an id, "zz", that no extension has
SkeletonDangling ==
    [name |-> "E", extensions |-> <<ExtPrice>>,
     conditions |-> Gate("all", <<Leaf("px"), Gate("any", <<Leaf("zz")>>)>>)]
SkeletonFields ==
    [name |-> "F", extensions |-> <<ExtEquity, ExtFields>>,
     conditions |-> Gate("all", <<Leaf("eq")>>)]

BuildSkeletons == Skeletons \cup {SkeletonDangling, SkeletonFields}

NoNew ==
    [done |-> FALSE, skeleton |-> SkeletonBare, ok |-> FALSE, names |-> {},
     before |-> <<>>, after |-> <<>>, added |-> FALSE]

BuildIdle == lastNew = NoNew /\ constructed = {} /\ hazards = 0

\* the Extensions _load_extensions constructs before it ends or raises,
\* each as (Primitive object, field it names)
RECURSIVE ConstructedBy(_, _)
ConstructedBy(todo, reg) ==
    IF todo = <<>> \/ Head(todo).primitive \notin DOMAIN reg THEN {}
    ELSE {<<reg[Head(todo).primitive], f>> :
              f \in Range(FieldsOfParams(Head(todo).params))}
             \cup ConstructedBy(Tail(todo), reg)

\* PrimitiveRegistry.register(Primitive(name, evaluator,
\* required_account_fields=fields))
RegisterPrimitive ==
    \E p \in Registrations, fields \in InitialFields :
        /\ Len(heap) + Len(blocks) < MaxObjects
        /\ heap' = Append(heap, Primitive(p.name, p.evaluator, fields))
        /\ registry' = DictPut(registry, p.name, Len(heap) + 1)
        /\ UNCHANGED <<blocks, rules, lastEval, lastPlaybook, treeVars, guardVars,
                       buildVars, hydrateVars, tickVars, compareVars, laterVars>>

\* RuleBlock(category, skeleton), recorded with the registry names and the
\* Primitive objects before and after it
ConstructRuleBlock ==
    \E skeleton \in BuildSkeletons :
        /\ Len(heap) + Len(blocks) < MaxObjects
        /\ LET r == RuleBlock(DefaultCategory, skeleton, registry, heap)
           IN  /\ heap' = r.heap
               /\ blocks' = IF r.ok THEN Append(blocks, r.block) ELSE blocks
               /\ lastNew' = [done |-> TRUE, skeleton |-> skeleton, ok |-> r.ok,
                              names |-> DOMAIN registry, before |-> heap,
                              after |-> r.heap, added |-> blocks' # blocks]
               /\ constructed' = constructed \cup
                      ConstructedBy(DictGet(skeleton, "extensions", <<>>), registry)
        /\ UNCHANGED <<registry, rules, lastEval, lastPlaybook, treeVars, guardVars,
                       hazards, hydrateVars, tickVars, compareVars, laterVars>>

(***************************************************************************)
(* engine.py: ContextBuilder.hydrate (SpecHydrate).  The account provider  *)
(* is AlpacaAccountProvider.get_snapshot: it returns the requested fields  *)
(* of the broker's account, None for a field the account lacks, or fails.  *)
(***************************************************************************)
\* longest account_fields list of a context-request descriptor
MaxFields == 2

\* no descriptor (None), or a ContextSkeletonSchema
NoSkeleton == [given |-> FALSE, account_fields |-> <<>>, symbol |-> ""]
ContextSkeleton(account_fields, symbol) ==
    [given |-> TRUE, account_fields |-> account_fields, symbol |-> symbol]

\* no extensions argument (None), or a list of Extensions
NoExtensions == [given |-> FALSE, list |-> <<>>]
ExtensionList(l) == [given |-> TRUE, list |-> l]

\* the account at the broker
BrokerAccount == [cash |-> PyStr(MaxAmount), buying_power |-> PyStr(MaxAmount)]

\* account_providers.py line 28: {k: account_dict.get(k) for k in fields}
get_snapshot(fields) == [k \in fields |-> DictGet(BrokerAccount, k, PyNone)]

\* lines 98-103: the descriptor's account_fields, else the `field` params of
\* the extensions
DynamicAccountFields(skeleton, extensions) ==
    IF skeleton.given THEN Range(skeleton.account_fields)
    ELSE IF extensions.given /\ extensions.list # <<>>
    THEN {extensions.list[i].params.field :
              i \in {j \in DOMAIN extensions.list :
                         "field" \in DOMAIN extensions.list[j].params}}
    ELSE {}

\* line 105 without the union: the global safety fields are not fetched
AllFieldsDynamicOnly(dynamic, globals) == dynamic

\* line 105: dynamic_account_fields.union(self.global_account_fields)
AllFields(dynamic, globals) == dynamic \cup globals

\* lines 107-111: a copy of base_context, with the descriptor's symbol
WithSymbol(base, skeleton) ==
    IF skeleton.given /\ skeleton.symbol # ""
    THEN DictPut(base, "symbol", skeleton.symbol) ELSE base

\* hydrate keeping what it has when the provider fails: the copy of the
\* base context is returned without the account
hydrateKeepsPartial(in) ==
    [raised |-> FALSE, context |-> WithSymbol(in.base, in.skeleton),
     accountCalls |-> <<>>, historyCalls |-> <<>>]

\* ContextBuilder.hydrate.  accountCalls and historyCalls are the calls made
\* to the account provider and to the user-action provider: the latter is
\* stored by __init__ (line 87) and never called, and history_metrics
\* (line 96) stays empty.
hydrate(in) ==
    LET all_fields == AllFields(DynamicAccountFields(in.skeleton, in.extensions),
                                Range(in.globals))
        context == WithSymbol(in.base, in.skeleton)
    IN  IF all_fields = {}
        THEN [raised |-> FALSE, context |-> context,
              accountCalls |-> <<>>, historyCalls |-> <<>>]
        ELSE IF in.providerFails
        THEN [raised |-> TRUE, context |-> EmptyDict,
              accountCalls |-> <<all_fields>>, historyCalls |-> <<>>]
        ELSE [raised |-> FALSE,
              context |-> DictPut(context, "account", get_snapshot(all_fields)),
              accountCalls |-> <<all_fields>>, historyCalls |-> <<>>]

(***************************************************************************)
(* The inputs of SpecHydrate.                                              *)
(***************************************************************************)
HydrateFields == {"cash", "equity"}

ContextSkeletons ==
    {NoSkeleton} \cup
    {ContextSkeleton(l, sym) : l \in ListsUpTo(HydrateFields, MaxFields),
                               sym \in {"", "AAPL"}}

ExtensionLists ==
    {NoExtensions} \cup
    {ExtensionList(l) : l \in {<<>>, <<ExtPrice>>, <<ExtEquity>>,
                               <<ExtPrice, ExtEquity>>, <<ExtFields>>}}

\* the market context, without or with an account entry of its own
BaseContexts ==
    {[price |-> PyInt(MaxAmount)],
     [price |-> PyInt(MaxAmount), account |-> [cash |-> PyInt(0)]]}

\* global_account_fields of the ContextBuilder: none, or safety fields
GlobalFieldLists == {<<>>, <<"cash">>, <<"buying_power", "cash">>}

\* the history metrics the rules ask for (rate_limit's `metric`)
HistoryMetrics == {{}, {"trades"}}

HydrateInputs ==
    [base : BaseContexts, skeleton : ContextSkeletons, extensions : ExtensionLists,
     globals : GlobalFieldLists, providerFails : BOOLEAN,
     hasActionProvider : BOOLEAN, metrics : HistoryMetrics]

NoHydrateIn ==
    [base |-> [price |-> PyInt(MaxAmount)], skeleton |-> NoSkeleton,
     extensions |-> NoExtensions, globals |-> <<>>, providerFails |-> FALSE,
     hasActionProvider |-> FALSE, metrics |-> {}]

NoHydrateOut ==
    [done |-> FALSE, raised |-> FALSE, context |-> EmptyDict,
     accountCalls |-> <<>>, historyCalls |-> <<>>]

HydrateIdle == hydrateIn = NoHydrateIn /\ hydrateOut = NoHydrateOut

\* context_builder.hydrate(base_context, context_skeleton, extensions)
Hydrate ==
    /\ ~hydrateOut.done
    /\ LET r == hydrate(hydrateIn)
       IN  hydrateOut' = [done |-> TRUE, raised |-> r.raised, context |-> r.context,
                          accountCalls |-> r.accountCalls,
                          historyCalls |-> r.historyCalls]
    /\ UNCHANGED <<hydrateIn, treeVars, guardVars, engineVars, buildVars, tickVars,
                   compareVars, laterVars>>

(***************************************************************************)
(* execution_engine.py (SpecEngine): process_new_playbook starts a         *)
(* run_market_engine task for each playbook; its market_handler runs from  *)
(* the message to the first `await ws.send_json` without giving up the     *)
(* event loop (hydrate, evaluate and get_and_reset_user_action never       *)
(* suspend), then sends the payload to one client per step.                *)
(***************************************************************************)
\* playbooks started in one run
MaxPlaybooks == 2
\* market messages, and user-activity messages, handled in one run
MaxTicks == 2

\* the WebSocket clients connected (clients_set)
Clients == {1, 2}

\* execution_engine.py line 34
EngineGlobalFields == <<"equity", "buying_power", "cash", "daytrade_count", "open_positions">>

\* the rules RuleParser.parse gives the n-th playbook: a rule on the price,
\* a rule on the account's equity, a rule on the price under RISK
PlaybookSkeletons(n) ==
    IF n = 1 THEN <<[category |-> "ENTRY", skeleton |-> SkeletonA]>>
    ELSE IF n = 2 THEN <<[category |-> "ENTRY", skeleton |-> SkeletonB]>>
    ELSE <<[category |-> "RISK", skeleton |-> SkeletonA]>>

\* rule_parser.py lines 42-50
PlaybookRules(n) ==
    [i \in DOMAIN PlaybookSkeletons(n) |->
        RuleBlock(PlaybookSkeletons(n)[i].category, PlaybookSkeletons(n)[i].skeleton,
                  StartupRegistry, StartupHeap).block]

\* lines 69-75: the market context of a message with or without a price
MarketContext(hasPrice) ==
    IF hasPrice THEN [price |-> PyInt(MaxAmount)] ELSE EmptyDict

\* the context hydrate returns, as RuleBlock.evaluate reads it
AsContext(c) ==
    Context("account" \in DOMAIN c,
            IF "account" \in DOMAIN c THEN c["account"] ELSE EmptyDict,
            [k \in DOMAIN c \ {"account", "symbol"} |-> c[k]])

\* lines 85-88: context_builder.hydrate(base_context, context_skeleton)
TickHydrate(hasPrice, providerFails) ==
    hydrate([base |-> MarketContext(hasPrice),
             skeleton |-> ContextSkeleton(<<>>, ""),
             extensions |-> NoExtensions, globals |-> EngineGlobalFields,
             providerFails |-> providerFails, hasActionProvider |-> FALSE,
             metrics |-> {}])

\* lines 94-109: the payload of a tick
Payload(hasPrice, entry_triggers, action) ==
    [price |-> hasPrice, rule_triggered |-> entry_triggers # <<>>,
     triggered_entries |-> entry_triggers, action |-> action,
     deviation |-> (entry_triggers # <<>>) # action]

NoPayload == Payload(FALSE, <<>>, FALSE)

\* market_handler up to the broadcast.  hydrated / evaluated: hydrate /
\* playbook.evaluate returned; consumed: the user-action flag was read and
\* reset; queued: the broadcast loop was reached.  The print of lines
\* 112-119 formats the price with `:<8`, which raises for a message
\* without price (None); every exception ends the tick (line 128).
MarketTick(playbook, hasPrice, providerFails, acted) ==
    LET h == TickHydrate(hasPrice, providerFails)
        r == PlaybookEvaluate(PlaybookRules(playbook), StartupHeap, AsContext(h.context))
        entry_triggers == DictGet(r.result, "ENTRY", <<>>)
        tick == [kind |-> "market", playbook |-> playbook, hasPrice |-> hasPrice,
                 providerFailed |-> providerFails, hydrated |-> FALSE,
                 evaluated |-> FALSE, consumed |-> FALSE, queued |-> FALSE,
                 payload |-> NoPayload]
    IN  IF h.raised THEN tick
        ELSE IF r.raised THEN [tick EXCEPT !.hydrated = TRUE]
        ELSE IF ~hasPrice
        THEN [tick EXCEPT !.hydrated = TRUE, !.evaluated = TRUE, !.consumed = TRUE]
        ELSE [tick EXCEPT !.hydrated = TRUE, !.evaluated = TRUE, !.consumed = TRUE,
                          !.queued = TRUE,
                          !.payload = Payload(hasPrice, entry_triggers, acted)]

\* a run_market_engine task: listening for a message, or inside the
\* broadcast loop of tick `tick` with the clients `pending` still to send to
EngineTask(playbook) ==
    [playbook |-> playbook, pc |-> "listen", tick |-> 0, pending |-> <<>>]

\* list(clients_set)
ClientList == [i \in Clients |-> i]

EngineTaskIdle ==
    /\ engines = <<>>
    /\ userTookAction = FALSE
    /\ published = <<>>
    /\ tickLog = <<>>

\* process_new_playbook, lines 232-239: the tasks of the new playbook are
\* created; the tasks created before keep running
StartPlaybook ==
    /\ Len(engines) < MaxPlaybooks
    /\ engines' = Append(engines, EngineTask(Len(engines) + 1))
    /\ UNCHANGED <<userTookAction, published, tickLog, treeVars, guardVars,
                   engineVars, buildVars, hydrateVars, compareVars, laterVars>>

\* the messages of one kind handled so far
Handled(kind) == {i \in DOMAIN tickLog : tickLog[i].kind = kind}

\* the entry of tickLog for a user-activity message
UserMessage ==
    [kind |-> "user", playbook |-> 0, hasPrice |-> FALSE, providerFailed |-> FALSE,
     hydrated |-> FALSE, evaluated |-> FALSE, consumed |-> FALSE, queued |-> FALSE,
     payload |-> NoPayload]

\* user_activity_handler, lines 36-45
UserActivity ==
    /\ engines # <<>>
    /\ Cardinality(Handled("user")) < MaxTicks
    /\ userTookAction' = TRUE
    /\ tickLog' = Append(tickLog, UserMessage)
    /\ UNCHANGED <<engines, published, treeVars, guardVars,
                   engineVars, buildVars, hydrateVars, compareVars, laterVars>>

\* the flag read and left set
get_user_action_keeping(flag) == [value |-> flag, flag |-> flag]

\* EngineState.get_and_reset_user_action, lines 27-30: the value read and
\* the flag afterwards
get_and_reset_user_action(flag) == [value |-> flag, flag |-> FALSE]

\* market_handler(msg), lines 64-121: one market message handled by a
\* listening task, up to the first send
MarketMessage ==
    \E e \in DOMAIN engines, hasPrice \in BOOLEAN, providerFails \in BOOLEAN :
        /\ engines[e].pc = "listen"
        /\ Cardinality(Handled("market")) < MaxTicks
        /\ LET read == get_and_reset_user_action(userTookAction)
               t == MarketTick(engines[e].playbook, hasPrice, providerFails,
                               read.value)
           IN  /\ tickLog' = Append(tickLog, [t EXCEPT !.playbook = e])
               /\ userTookAction' = IF t.consumed THEN read.flag ELSE userTookAction
               /\ engines' = IF t.queued
                             THEN [engines EXCEPT ![e].pc = "send",
                                                  ![e].tick = Len(tickLog) + 1,
                                                  ![e].pending = ClientList]
                             ELSE engines
        /\ UNCHANGED <<published, treeVars, guardVars, engineVars, buildVars,
                       hydrateVars, compareVars, laterVars>>

\* lines 122-127: await ws.send_json(output_payload) for the next client;
\* a send that fails is logged and the loop goes on
SendPayload ==
    \E e \in DOMAIN engines, sent \in BOOLEAN :
        /\ engines[e].pc = "send"
        /\ published' =
               IF sent
               THEN Append(published,
                        [client |-> Head(engines[e].pending),
                         playbook |-> engines[e].playbook,
                         tick |-> engines[e].tick,
                         payload |-> tickLog[engines[e].tick].payload,
                         current |-> Len(engines)])
               ELSE published
        /\ engines' = [engines EXCEPT
               ![e].pending = Tail(@),
               ![e].pc = IF Len(engines[e].pending) = 1 THEN "listen" ELSE "send"]
        /\ UNCHANGED <<userTookAction, tickLog, treeVars, guardVars, engineVars,
                       buildVars, hydrateVars, compareVars, laterVars>>

(***************************************************************************)
(* account_comparison_evaluator on its own (SpecCompare).                  *)
(***************************************************************************)
CompareFields == {"cash", "equity"}

\* the params of the call: any operator, also one the chain does not know,
\* and any kind of value; a params without `value`
CompareParams ==
    [field : CompareFields, op : Ops \cup {"!="},
     value : {PyNone, PyInt(0), PyInt(MaxAmount), PyStr(MaxAmount), PyText}]
        \cup [field : CompareFields, op : Ops \cup {"!="}]

\* the contexts of the call: without an account, or with an account holding
\* any of the fields
CompareContexts ==
    {Context(FALSE, EmptyDict, EmptyDict)} \cup
    {Context(TRUE, AsDict(r), EmptyDict) :
        r \in [cash : {Absent, PyNone, PyInt(0), PyStr(MaxAmount)},
               equity : {Absent, PyNone, PyInt(MaxAmount)},
               value : {Absent, PyInt(MaxAmount)}]}

NoCompareOut == [done |-> FALSE, outcome |-> "none"]

CompareIdle ==
    /\ compareIn = [params |-> EmptyDict, ctx |-> Context(FALSE, EmptyDict, EmptyDict)]
    /\ compareOut = NoCompareOut

\* no evaluator called, no connection attempted, no parse under way
NoCall == [done |-> FALSE]

LaterIdle ==
    /\ callIn = NoCall
    /\ callOut = NoCall
    /\ conn = NoCall
    /\ repair = NoCall

\* account_comparison_evaluator(params, context)
AccountComparison ==
    /\ ~compareOut.done
    /\ compareOut' = [done |-> TRUE,
                      outcome |-> account_comparison_evaluator(compareIn.params,
                                                               compareIn.ctx)]
    /\ UNCHANGED <<compareIn, treeVars, guardVars, engineVars, buildVars,
                   hydrateVars, tickVars, laterVars>>

(***************************************************************************)
(* RuleConflictChecker.check_conflict (SpecConflict).                      *)
(***************************************************************************)
ConflictMissing == "Account field missing"
ConflictAtLeast == "Rule requires field >= value"
ConflictAtMost == "Rule requires field <= value"
ConflictEqual == "Rule requires field == value"

\* a > b, a < b of Python between an int and a str raise TypeError
Ordered(a, b) == a.t # "str" /\ b.t # "str"

\* engine.py lines 190-207.  The conflicts found, or raised for a params
\* without its keys and for an ordering of a number and a str.
check_conflict(name, params, snapshot) ==
    IF name # "account_comparison" THEN [raised |-> FALSE, conflicts |-> <<>>]
    ELSE IF ~({"field", "op", "value"} \subseteq DOMAIN params)
    THEN [raised |-> TRUE, conflicts |-> <<>>]
    ELSE LET value == params.value
             account_value == Get(snapshot, params.field)
         IN  IF account_value.t = "none"
             THEN [raised |-> FALSE, conflicts |-> <<ConflictMissing>>]
             ELSE IF params.op \in {">", ">="}
             THEN IF ~Ordered(value, account_value)
                  THEN [raised |-> TRUE, conflicts |-> <<>>]
                  ELSE [raised |-> FALSE,
                        conflicts |-> IF value.v > account_value.v
                                      THEN <<ConflictAtLeast>> ELSE <<>>]
             ELSE IF params.op \in {"<", "<="}
             THEN IF ~Ordered(value, account_value)
                  THEN [raised |-> TRUE, conflicts |-> <<>>]
                  ELSE [raised |-> FALSE,
                        conflicts |-> IF value.v < account_value.v
                                      THEN <<ConflictAtMost>> ELSE <<>>]
             ELSE IF params.op = "==" /\ value # account_value
             THEN [raised |-> FALSE, conflicts |-> <<ConflictEqual>>]
             ELSE [raised |-> FALSE, conflicts |-> <<>>]

\* the extensions checked: account_comparison with a numeric threshold, and
\* a comparison on the price
ConflictExtensions ==
    {[name |-> "account_comparison", params |-> q] :
        q \in [field : {"cash", "equity"}, op : Ops,
               value : {PyInt(n) : n \in 0..MaxAmount}]}
        \cup {[name |-> "comparison", params |-> ExtPrice.params]}

\* the snapshots of the checker
ConflictSnapshots ==
    {AsDict(r) : r \in [cash : {Absent, PyNone, PyStr(MaxAmount)}
                               \cup {PyInt(n) : n \in 0..MaxAmount},
                        equity : {Absent, PyInt(MaxAmount)}]}

\* RuleConflictChecker(snapshot).check_conflict(extension)
CheckConflict ==
    /\ ~callOut.done
    /\ callOut' = [done |-> TRUE,
                   result |-> check_conflict(callIn.extension.name,
                                             callIn.extension.params,
                                             callIn.snapshot)]
    /\ UNCHANGED <<callIn, conn, repair, treeVars, guardVars, engineVars,
                   buildVars, hydrateVars, tickVars, compareVars>>

(***************************************************************************)
(* comparison_evaluator on its own (SpecComparison).                       *)
(***************************************************************************)
\* the float n.0
PyDec(n) == [t |-> "float", v |-> n]

\* int and float operands
Numbers == {PyInt(n) : n \in 0..MaxAmount} \cup {PyDec(n) : n \in 0..MaxAmount}

\* params {'left': 'rsi', 'op': op, 'right': number}
ComparisonParams == [left : {"rsi"}, op : Ops \cup {"!="}, right : Numbers]

\* contexts without rsi, or with rsi a number, a numeric str or None
ComparisonContexts ==
    {Context(FALSE, EmptyDict, AsDict(r)) :
        r \in [rsi : {Absent, PyNone, PyStr(MaxAmount)} \cup Numbers]}

\* comparison_evaluator(params, context)
Comparison ==
    /\ ~callOut.done
    /\ callOut' = [done |-> TRUE,
                   outcome |-> comparison_evaluator(callIn.params, callIn.ctx)]
    /\ UNCHANGED <<callIn, conn, repair, treeVars, guardVars, engineVars,
                   buildVars, hydrateVars, tickVars, compareVars>>

(***************************************************************************)
(* temporal_gate_evaluator on its own (SpecGate).                          *)
(***************************************************************************)
\* latest time of day, in seconds since midnight
MaxTime == 2

\* an ISO-8601 timestamp whose time of day is n seconds
IsoTime(n) == [t |-> "iso", v |-> n]

\* primitives.py lines 5-22: a number as it is, an ISO timestamp as its
\* seconds since midnight, anything else (None, another str) as 0
parse_time_to_seconds(time_val) ==
    IF time_val.t \in {"int", "float", "bool", "iso"} THEN time_val.v ELSE 0

Times == {PyInt(n) : n \in 0..MaxTime}

\* context.get('current_time'): missing, seconds, an ISO timestamp, a str
\* that is no timestamp
CurrentTimes == {Absent, PyStr(MaxAmount), IsoTime(MaxAmount)} \cup Times

\* primitives.py lines 190-205
temporal_gate_evaluator(params, ctx) ==
    LET current_seconds == parse_time_to_seconds(Get(ctx.market, "current_time"))
        start == Get(params, "start_time")
        end == Get(params, "end_time")
        cooldown_end == Get(params, "cooldown_end")
    IN  IF Truthy(start) /\ Truthy(end)
        THEN Outcome(start.v <= current_seconds /\ current_seconds <= end.v)
        ELSE IF Truthy(cooldown_end)
        THEN Outcome(current_seconds >= cooldown_end.v)
        ELSE "true"

GateParams ==
    {AsDict(r) : r \in [start_time : {Absent} \cup Times,
                        end_time : {Absent} \cup Times,
                        cooldown_end : {Absent} \cup Times]}

GateContexts ==
    {Context(FALSE, EmptyDict, AsDict(r)) : r \in [current_time : CurrentTimes]}

\* temporal_gate_evaluator(params, context)
TemporalGate ==
    /\ ~callOut.done
    /\ callOut' = [done |-> TRUE,
                   outcome |-> temporal_gate_evaluator(callIn.params, callIn.ctx)]
    /\ UNCHANGED <<callIn, conn, repair, treeVars, guardVars, engineVars,
                   buildVars, hydrateVars, tickVars, compareVars>>

(***************************************************************************)
(* rate_limit_evaluator on its own (SpecRate).                             *)
(***************************************************************************)
\* longest history list
MaxEvents == 2

\* line 129: window_minutes * 60
SecondsPerMinute == 60

\* the timestamps of the history: t - 4000, t - 3600, t - 100 and t for
\* t = 4000, in seconds or as an ISO timestamp
Stamps == {PyInt(0), PyInt(400), PyInt(3900), PyInt(4000), IsoTime(3900)}

\* the count of the loop of lines 127-130 ignoring the window
CountAll(history, current_seconds, window_minutes) == Len(history)

\* lines 126-130: the timestamps of the list within the window
RECURSIVE CountInWindow(_, _, _)
CountInWindow(history, current_seconds, window_minutes) ==
    IF history = <<>> THEN 0
    ELSE (IF current_seconds - parse_time_to_seconds(Head(history))
                 <= window_minutes * SecondsPerMinute
          THEN 1 ELSE 0)
             + CountInWindow(Tail(history), current_seconds, window_minutes)

\* primitives.py lines 113-132; history is context.get('history', {})
rate_limit_evaluator(params, ctx) ==
    LET history == DictGet(DictGet(ctx.market, "history", EmptyDict),
                           params.metric, <<>>)
        current_seconds == parse_time_to_seconds(Get(ctx.market, "current_time"))
    IN  Outcome(CountInWindow(history, current_seconds, params.window_minutes)
                    <= params.max)

RateParams == [metric : {"trades"}, max : 0..MaxEvents, window_minutes : {0, 1, 60}]

\* the history entry of a context: none, one without the metric, one with
\* a list of timestamps under it
Histories(n) ==
    {EmptyDict, [history |-> EmptyDict]}
        \cup {[history |-> [trades |-> l]] : l \in ListsUpTo(Stamps, n)}

RateContexts(n) ==
    UNION {{Context(FALSE, EmptyDict, h),
            Context(FALSE, EmptyDict, DictPut(h, "current_time", PyInt(3900))),
            Context(FALSE, EmptyDict, DictPut(h, "current_time", PyInt(4000)))} :
               h \in Histories(n)}

\* rate_limit_evaluator(params, context)
RateLimit ==
    /\ ~callOut.done
    /\ callOut' = [done |-> TRUE,
                   outcome |-> rate_limit_evaluator(callIn.params, callIn.ctx)]
    /\ UNCHANGED <<callIn, conn, repair, treeVars, guardVars, engineVars,
                   buildVars, hydrateVars, tickVars, compareVars>>

(***************************************************************************)
(* sequence_evaluator on its own (SpecSequence).                           *)
(***************************************************************************)
\* longest pattern
MaxPattern == 2

EventNames == {"buy", "sell"}

\* lines 170-176: the events within the trailing window of the current time
RECURSIVE FilterWindow(_, _, _)
FilterWindow(events, current_seconds, window_minutes) ==
    IF events = <<>> THEN <<>>
    ELSE (IF current_seconds - parse_time_to_seconds(Head(events)[1])
                 <= window_minutes * SecondsPerMinute
          THEN <<Head(events)>> ELSE <<>>)
             \o FilterWindow(Tail(events), current_seconds, window_minutes)

\* lines 181-185: the scan of the events; pattern[pattern_index] raises
\* IndexError on an empty pattern
RECURSIVE ScanPattern(_, _, _)
ScanPattern(events_only, pattern, pattern_index) ==
    IF events_only = <<>> THEN "false"
    ELSE IF pattern_index + 1 > Len(pattern) THEN "raise"
    ELSE IF Head(events_only) = pattern[pattern_index + 1]
    THEN IF pattern_index + 1 = Len(pattern) THEN "true"
         ELSE ScanPattern(Tail(events_only), pattern, pattern_index + 1)
    ELSE ScanPattern(Tail(events_only), pattern, pattern_index)

\* primitives.py lines 157-187
sequence_evaluator(params, ctx) ==
    LET window_minutes == DictGet(params, "window_minutes", 0)
        all == DictGet(ctx.market, "event_history", <<>>)
        events == IF window_minutes # 0
                  THEN FilterWindow(all,
                           parse_time_to_seconds(Get(ctx.market, "current_time")),
                           window_minutes)
                  ELSE all
    IN  ScanPattern([i \in DOMAIN events |-> events[i][2]], params.pattern, 0)

SequenceParams(n) ==
    UNION {{[pattern |-> q], [pattern |-> q, window_minutes |-> 60]} :
               q \in ListsUpTo(EventNames, n)}

\* the events: (timestamp, name) pairs, 4000 s or 0 s before the current time
SequenceContexts(n) ==
    {Context(FALSE, EmptyDict, [current_time |-> PyInt(4000)])}
        \cup {Context(FALSE, EmptyDict,
                      [current_time |-> PyInt(4000), event_history |-> l]) :
                 l \in ListsUpTo({PyInt(0), PyInt(4000)} \X EventNames, n)}

\* sequence_evaluator(params, context)
Sequence ==
    /\ ~callOut.done
    /\ callOut' = [done |-> TRUE,
                   outcome |-> sequence_evaluator(callIn.params, callIn.ctx)]
    /\ UNCHANGED <<callIn, conn, repair, treeVars, guardVars, engineVars,
                   buildVars, hydrateVars, tickVars, compareVars>>

(***************************************************************************)
(* llm_layer/data_ingestion.py: WebSocketClient.connect (SpecConnect).     *)
(* One action per outcome of `await websockets.connect`, each with the     *)
(* rest of the loop body and the loop test that follows it.                *)
(***************************************************************************)
\* largest max_retries
MaxRetries == 4

RECURSIVE Pow2(_)
Pow2(n) == IF n = 0 THEN 1 ELSE 2 * Pow2(n - 1)

\* the client inside connect(max_retries, base_delay): attempt is the
\* loop's counter, tries the outcomes of the websockets.connect calls made,
\* delays the sleeps made, outcome how connect ended
Connecting(max_retries, base_delay) ==
    [done |-> FALSE, max_retries |-> max_retries, base_delay |-> base_delay,
     attempt |-> 0, tries |-> <<>>, delays |-> <<>>, connected |-> FALSE,
     outcome |-> "running"]

\* line 20: `while attempt < max_retries`, falling off the loop returns
AfterRetry(c) ==
    IF c.attempt < c.max_retries THEN c
    ELSE [c EXCEPT !.outcome = "returned", !.done = TRUE]

\* lines 27-30 and 36-39: attempt += 1, delay = base_delay * 2 ** (attempt - 1)
Retry(c, try) ==
    AfterRetry([c EXCEPT !.attempt = @ + 1,
                         !.tries = Append(@, try),
                         !.delays = Append(@, c.base_delay * Pow2(c.attempt))])

\* lines 22-24: the connection is made
ConnectEstablished ==
    /\ conn.outcome = "running"
    /\ conn' = [conn EXCEPT !.tries = Append(@, "ok"), !.connected = TRUE,
                            !.outcome = "returned", !.done = TRUE]
    /\ UNCHANGED <<callIn, callOut, repair, treeVars, guardVars, engineVars,
                   buildVars, hydrateVars, tickVars, compareVars>>

\* lines 25-30: InvalidStatus with status 429
ConnectRateLimited ==
    /\ conn.outcome = "running"
    /\ conn' = Retry(conn, "429")
    /\ UNCHANGED <<callIn, callOut, repair, treeVars, guardVars, engineVars,
                   buildVars, hydrateVars, tickVars, compareVars>>

\* lines 31-33: InvalidStatus with another status is raised at once
ConnectRejected ==
    /\ conn.outcome = "running"
    /\ conn' = [conn EXCEPT !.tries = Append(@, "status"),
                            !.outcome = "raised", !.done = TRUE]
    /\ UNCHANGED <<callIn, callOut, repair, treeVars, guardVars, engineVars,
                   buildVars, hydrateVars, tickVars, compareVars>>

\* lines 34-42: another exception is retried up to the last attempt
ConnectError ==
    /\ conn.outcome = "running"
    /\ conn' = IF conn.attempt < conn.max_retries - 1
               THEN Retry(conn, "error")
               ELSE [conn EXCEPT !.tries = Append(@, "error"),
                                 !.outcome = "raised", !.done = TRUE]
    /\ UNCHANGED <<callIn, callOut, repair, treeVars, guardVars, engineVars,
                   buildVars, hydrateVars, tickVars, compareVars>>

(***************************************************************************)
(* llm_layer/rule_parser.py: RuleParser.parse and _validate_with_repair    *)
(* (SpecRepair).  One action per turn of the loop of line 62; the LLM's    *)
(* answers are the inputs.                                                 *)
(***************************************************************************)
\* largest max_repairs
MaxRepairs == 2

\* what the LLM may answer: text that is no JSON; a flat extension, which
\* lines 77-89 wrap into a rule without the `name` the schema requires; a
\* response of status ok; one of status ok naming an unregistered
\* primitive; the two other statuses
LLMOutputs ==
    {"garbage", "flat", "ok", "ok_unknown_primitive", "needs_clarification",
     "unsupported"}

\* lines 64-91: json.loads and LLMResponseSchema.model_validate pass
Validates(raw) == raw \notin {"garbage", "flat"}

\* llm_response.status
StatusOf(raw) == IF raw = "ok_unknown_primitive" THEN "ok" ELSE raw

\* line 94 with > for >=
LastAttemptMissed(attempt, max_repairs) == attempt > max_repairs

\* line 94: attempt >= self.max_repairs
LastAttempt(attempt, max_repairs) == attempt >= max_repairs

\* parse after line 33, inside _validate_with_repair: raws are the LLM's
\* answers so far, the last one under validation
Parsing(max_repairs, raw) ==
    [done |-> FALSE, max_repairs |-> max_repairs, attempt |-> 0,
     raws |-> <<raw>>, validated |-> "none", outcome |-> "running",
     error |-> "none"]

\* lines 37-55: parse with the validated response
ParseValidated(r, raw) ==
    IF StatusOf(raw) # "ok"
    THEN [r EXCEPT !.done = TRUE, !.validated = raw, !.outcome = "raised",
                   !.error = "Cannot parse playbook"]
    ELSE IF raw = "ok_unknown_primitive"
    THEN [r EXCEPT !.done = TRUE, !.validated = raw, !.outcome = "raised",
                   !.error = "Primitive not registered"]
    ELSE [r EXCEPT !.done = TRUE, !.validated = raw, !.outcome = "playbook"]

\* line 91: the output validates and is returned to parse
ValidateAccepts ==
    /\ repair.outcome = "running"
    /\ Validates(repair.raws[Len(repair.raws)])
    /\ repair' = ParseValidated(repair, repair.raws[Len(repair.raws)])
    /\ UNCHANGED <<callIn, callOut, conn, treeVars, guardVars, engineVars,
                   buildVars, hydrateVars, tickVars, compareVars>>

\* lines 93-116: the output is invalid and the LLM is asked to repair it
RepairRequest ==
    \E raw \in LLMOutputs :
        /\ repair.outcome = "running"
        /\ ~Validates(repair.raws[Len(repair.raws)])
        /\ ~LastAttempt(repair.attempt, repair.max_repairs)
        /\ repair' = [repair EXCEPT !.attempt = @ + 1, !.raws = Append(@, raw)]
        /\ UNCHANGED <<callIn, callOut, conn, treeVars, guardVars, engineVars,
                       buildVars, hydrateVars, tickVars, compareVars>>

\* lines 94-95: the output is invalid on the last attempt
RepairGivesUp ==
    /\ repair.outcome = "running"
    /\ ~Validates(repair.raws[Len(repair.raws)])
    /\ LastAttempt(repair.attempt, repair.max_repairs)
    /\ repair' = [repair EXCEPT !.done = TRUE, !.outcome = "raised",
                                !.error = "LLM output invalid after repair"]
    /\ UNCHANGED <<callIn, callOut, conn, treeVars, guardVars, engineVars,
                   buildVars, hydrateVars, tickVars, compareVars>>

\* the variables of the other specifications, at rest
RestIdle == BuildIdle /\ HydrateIdle /\ EngineTaskIdle /\ CompareIdle /\ LaterIdle

\* all but the variables of an evaluator call
CallIdle ==
    /\ TreeIdle
    /\ GuardIdle
    /\ EngineIdle
    /\ BuildIdle
    /\ HydrateIdle
    /\ EngineTaskIdle
    /\ CompareIdle
    /\ conn = NoCall
    /\ repair = NoCall
    /\ callOut = NoCall

(***************************************************************************)
(* The specifications.                                                     *)
(***************************************************************************)
InitTree ==
    /\ node \in TreeNodes(MaxDepth)
    /\ results \in ResultMaps
    /\ treeOut = NoTreeOut
    /\ GuardIdle
    /\ EngineIdle
    /\ RestIdle

NextTree == EvaluateTree

SpecTree == InitTree /\ [][NextTree]_vars

InitGuard ==
    /\ account \in GuardAccounts
    /\ fieldsArg \in FieldsArgs
    /\ guardOut = NoGuardOut
    /\ TreeIdle
    /\ EngineIdle
    /\ RestIdle

NextGuard == ValidateAccount

SpecGuard == InitGuard /\ [][NextGuard]_vars

Init == TreeIdle /\ GuardIdle /\ EngineIdle /\ RestIdle

Next == Register \/ NewRuleBlock \/ EvaluateRule

Spec == Init /\ [][Next]_vars

InitPlaybook ==
    /\ TreeIdle
    /\ GuardIdle
    /\ registry = StartupRegistry
    /\ heap = StartupHeap
    /\ blocks = <<>>
    /\ rules = <<>>
    /\ lastEval = NoEval
    /\ lastPlaybook = NoPlaybookEval
    /\ RestIdle

NextPlaybook == AddRule \/ EvaluatePlaybook

SpecPlaybook == InitPlaybook /\ [][NextPlaybook]_vars

InitBuild == Init

NextBuild == RegisterPrimitive \/ ConstructRuleBlock

SpecBuild == InitBuild /\ [][NextBuild]_vars

InitHydrate ==
    /\ hydrateIn \in HydrateInputs
    /\ hydrateOut = NoHydrateOut
    /\ TreeIdle
    /\ GuardIdle
    /\ EngineIdle
    /\ BuildIdle
    /\ EngineTaskIdle
    /\ CompareIdle
    /\ LaterIdle

NextHydrate == Hydrate

SpecHydrate == InitHydrate /\ [][NextHydrate]_vars

InitEngine == Init

NextEngine == StartPlaybook \/ UserActivity \/ MarketMessage \/ SendPayload

SpecEngine == InitEngine /\ [][NextEngine]_vars

InitCompare ==
    /\ TreeIdle
    /\ GuardIdle
    /\ EngineIdle
    /\ BuildIdle
    /\ HydrateIdle
    /\ EngineTaskIdle
    /\ compareIn \in [params : CompareParams, ctx : CompareContexts]
    /\ compareOut = NoCompareOut
    /\ LaterIdle

NextCompare == AccountComparison

SpecCompare == InitCompare /\ [][NextCompare]_vars

InitConflict ==
    /\ CallIdle
    /\ callIn \in [extension : ConflictExtensions, snapshot : ConflictSnapshots]

NextConflict == CheckConflict

SpecConflict == InitConflict /\ [][NextConflict]_vars

InitComparison ==
    /\ CallIdle
    /\ callIn \in [params : ComparisonParams, ctx : ComparisonContexts]

NextComparison == Comparison

SpecComparison == InitComparison /\ [][NextComparison]_vars

InitGate ==
    /\ CallIdle
    /\ callIn \in [params : GateParams, ctx : GateContexts]

NextGate == TemporalGate

SpecGate == InitGate /\ [][NextGate]_vars

InitRate ==
    /\ CallIdle
    /\ callIn \in [params : RateParams, ctx : RateContexts(MaxEvents)]

NextRate == RateLimit

SpecRate == InitRate /\ [][NextRate]_vars

InitSequence ==
    /\ CallIdle
    /\ callIn \in [params : SequenceParams(MaxPattern), ctx : SequenceContexts(MaxEvents)]

NextSequence == Sequence

SpecSequence == InitSequence /\ [][NextSequence]_vars

InitConnect ==
    /\ TreeIdle
    /\ GuardIdle
    /\ EngineIdle
    /\ BuildIdle
    /\ HydrateIdle
    /\ EngineTaskIdle
    /\ CompareIdle
    /\ callIn = NoCall
    /\ callOut = NoCall
    /\ repair = NoCall
    /\ conn \in {Connecting(m, d) : m \in 1..MaxRetries, d \in {1, 2}}

NextConnect ==
    ConnectEstablished \/ ConnectRateLimited \/ ConnectRejected \/ ConnectError

SpecConnect == InitConnect /\ [][NextConnect]_vars

InitRepair ==
    /\ TreeIdle
    /\ GuardIdle
    /\ EngineIdle
    /\ BuildIdle
    /\ HydrateIdle
    /\ EngineTaskIdle
    /\ CompareIdle
    /\ callIn = NoCall
    /\ callOut = NoCall
    /\ conn = NoCall
    /\ repair \in {Parsing(m, raw) : m \in 0..MaxRepairs, raw \in LLMOutputs}

NextRepair == ValidateAccepts \/ RepairRequest \/ RepairGivesUp

SpecRepair == InitRepair /\ [][NextRepair]_vars

(***************************************************************************)
(* The condition tree (SpecTree).                                          *)
(***************************************************************************)
\* the list a node carries under a gate key, empty when the key is absent
GateList(n, k) == DictGet(n.d, k, <<>>)

\* the node without the key k
WithoutKey(n, k) == Dict([x \in DOMAIN n.d \ {k} |-> n.d[x]])

\* the node with the i-th child of its gate k replaced by the node c
WithChild(n, k, i, c) == Dict([n.d EXCEPT ![k] = [@ EXCEPT ![i] = c]])

\* whether the gate k over the children l passes, each child counted true
\* when its own evaluation against res is true
GatePasses(k, l, res) ==
    CASE k = "all" -> \A i \in DOMAIN l : _evaluate_recursive(l[i], res)
      [] k = "any" -> \E i \in DOMAIN l : _evaluate_recursive(l[i], res)
      [] k = "none" -> ~\E i \in DOMAIN l : _evaluate_recursive(l[i], res)

\* C1: a condition node whose all, any and none lists are all empty or
\* absent evaluates to true whatever the results map holds; and an empty
\* list under one gate key never makes a node false: the node evaluates as
\* it does without that key.
C1_EmptyGatesPass ==
    (treeOut.done /\ node.kind = "dict") =>
        /\ (\A k \in GateKeys : GateList(node, k) = <<>>) => treeOut.value
        /\ \A k \in DOMAIN node.d :
               node.d[k] = <<>> =>
                   treeOut.value = _evaluate_recursive(WithoutKey(node, k), results)

\* a node carrying the three keys, each with an empty list, evaluated true
C1_Witness ==
    /\ treeOut.done
    /\ node = Dict([k \in GateKeys |-> <<>>])
    /\ results = [i \in TreeIds |-> FALSE]
    /\ treeOut.value

\* C2: a condition node evaluates to true iff each non-empty gate it
\* carries passes: `all` iff every child is true, `any` iff some child is
\* true, `none` iff no child is true; several gate keys are a conjunction.
C2_GateSemantics ==
    (treeOut.done /\ node.kind = "dict") =>
        (treeOut.value <=>
            \A k \in DOMAIN node.d :
                node.d[k] # <<>> => GatePasses(k, node.d[k], results))

\* a node with the three gates, none of them empty, evaluated true
C2_Witness ==
    /\ treeOut.done
    /\ DOMAIN node.d = GateKeys
    /\ \A k \in GateKeys : node.d[k] # <<>>
    /\ Len(node.d["none"]) = MaxChildren
    /\ treeOut.value

C3Example == Gate("all", <<Gate("any", <<Leaf("a"), Leaf("b")>>), Leaf("c")>>)

\* C3: evaluation is compositional: a gate child that is itself a gate
\* contributes exactly the boolean of its own evaluation against the same
\* results map (the node evaluates as it does with that child replaced by a
\* leaf holding that boolean), and {"all": [{"any": [a, b]}, c]} evaluates
\* to (results[a] or results[b]) and results[c].
C3_Compositional ==
    treeOut.done =>
        /\ node = C3Example =>
               treeOut.value =
                   ((DictGet(results, "a", FALSE) \/ DictGet(results, "b", FALSE))
                        /\ DictGet(results, "c", FALSE))
        /\ node.kind = "dict" =>
               \A k \in DOMAIN node.d : \A i \in DOMAIN node.d[k] :
                   node.d[k][i].kind = "dict" =>
                       treeOut.value =
                           _evaluate_recursive(
                               WithChild(node, k, i, Leaf("sub")),
                               DictPut(results, "sub",
                                       _evaluate_recursive(node.d[k][i], results)))

\* the nested tree of the scenario with a false, b true, c true: true
C3_Witness ==
    /\ treeOut.done
    /\ node = C3Example
    /\ results = [i \in TreeIds |-> i # "a"]
    /\ treeOut.value

(***************************************************************************)
(* The account validation (SpecGuard).                                     *)
(***************************************************************************)
\* the number a field stands for, 0 when the field is missing
Amount(acct, f) == IF f \in DOMAIN acct THEN acct[f].v ELSE 0

\* the fields the comparisons read hold numbers (or their text), if present
WellTyped(acct) ==
    /\ \A f \in {"buying_power", "cash"} :
           f \in DOMAIN acct => acct[f].t \in {"int", "str"}
    /\ "daytrade_count" \in DOMAIN acct => acct["daytrade_count"].t = "int"

FlagSet(acct, f) == f \in DOMAIN acct /\ acct[f] = PyBool(TRUE)

\* the fields a call checks: those listed, all six when none is listed
CheckedFields(arg) ==
    IF arg = FieldsDefault \/ arg = FieldsGiven({}) THEN GLOBAL_ACCOUNT_FIELDS
    ELSE arg.fields

\* the messages expected for an account when the fields `checked` are checked
ExpectedConflicts(acct, checked) ==
    {m \in {MsgBlocked, MsgSuspended, MsgPDT, MsgBuyingPower, MsgCash} :
        \/ m = MsgBlocked /\ "trading_blocked" \in checked
              /\ FlagSet(acct, "trading_blocked")
        \/ m = MsgSuspended /\ "trade_suspended_by_user" \in checked
              /\ FlagSet(acct, "trade_suspended_by_user")
        \/ m = MsgPDT /\ {"pattern_day_trader", "daytrade_count"} \subseteq checked
              /\ FlagSet(acct, "pattern_day_trader")
              /\ Amount(acct, "daytrade_count") >= 3
        \/ m = MsgBuyingPower /\ "buying_power" \in checked
              /\ Amount(acct, "buying_power") <= 0
        \/ m = MsgCash /\ "cash" \in checked /\ Amount(acct, "cash") <= 0}

ExactList(l, S) == Range(l) = S /\ Len(l) = Cardinality(S)

\* C5 as stated, for the call validate_account_for_playbook(account) that
\* RuleBlock.evaluate makes: the function returns a list and raises
\* nothing, and the list holds the buying-power message iff buying_power
\* <= 0 (missing counts as 0), the cash message iff cash <= 0, the
\* pattern-day-trader message iff the flag is set and daytrade_count >= 3,
\* and the blocked and suspended messages iff their flag is set.
C5_AsStated ==
    (guardOut.done /\ fieldsArg = FieldsDefault) =>
        /\ ~guardOut.raised
        /\ ExactList(guardOut.conflicts,
                     ExpectedConflicts(account, GLOBAL_ACCOUNT_FIELDS))

\* What validate_account_for_playbook does guarantee: for an account whose
\* buying_power, cash and daytrade_count are numbers (or numeric text) or
\* missing, it returns, and each message is in the list iff the fields its
\* check reads are among the fields checked (those of fields_to_check, all
\* six global fields when it is omitted or empty) and its condition holds.
C5_ExactConflicts ==
    (guardOut.done /\ WellTyped(account)) =>
        /\ ~guardOut.raised
        /\ ExactList(guardOut.conflicts,
                     ExpectedConflicts(account, CheckedFields(fieldsArg)))

\* fields_to_check omitted, buying_power missing, a pattern day trader at
\* the limit with cash: the buying-power and day-trader messages, no other
C5_Witness ==
    /\ guardOut.done
    /\ ~guardOut.raised
    /\ fieldsArg = FieldsDefault
    /\ "buying_power" \notin DOMAIN account
    /\ guardOut.conflicts = <<MsgPDT, MsgBuyingPower>>

(***************************************************************************)
(* RuleBlock.evaluate (Spec).                                              *)
(***************************************************************************)
\* some AccountGuard check is violated by the account
GuardViolated(acct) == ExpectedConflicts(acct, GLOBAL_ACCOUNT_FIELDS) # {}

\* C4 as stated: when the context carries an account that violates an
\* AccountGuard check, RuleBlock.evaluate returns false, having invoked no
\* extension evaluator and not evaluated the condition tree.
C4_GuardShortCircuits ==
    (/\ lastEval.done
     /\ lastEval.ctx.hasAccount
     /\ WellTyped(lastEval.ctx.account)
     /\ GuardViolated(lastEval.ctx.account))
        => (/\ lastEval.outcome = "false"
            /\ lastEval.calls = <<>>
            /\ ~lastEval.treeRan)

\* C6 as stated: whenever the context has an `account` entry,
\* RuleBlock.evaluate runs the AccountGuard checks, before any extension;
\* an account with no fields (buying power and cash default to 0) blocks
\* the rule.
C6_GuardRunsOnEveryAccount ==
    (lastEval.done /\ lastEval.ctx.hasAccount) =>
        /\ lastEval.guardRan
        /\ lastEval.ctx.account = EmptyDict =>
               (lastEval.outcome = "false" /\ lastEval.calls = <<>>)

\* what block b returns for ctx in the current state
EvalOutcome(b, ctx) == RuleBlockEvaluate(blocks[b], heap, ctx).outcome

\* C7: RuleBlock.evaluate is deterministic and idempotent: whatever
\* happens between two calls (evaluations, RuleBlock constructions,
\* registrations), a RuleBlock returns for a context what it returned
\* before; no step changes what any existing RuleBlock returns for any
\* context.
\* (EvalOutcome reads registry, heap and blocks only: a step that leaves
\* the three alone, as an evaluation does, changes no outcome.)
C7_Idempotent ==
    [][\/ UNCHANGED <<registry, heap, blocks>>
       \/ \A b \in DOMAIN blocks : \A ctx \in Contexts :
              EvalOutcome(b, ctx)' = EvalOutcome(b, ctx)]_vars

\* a RuleBlock evaluated to true after the registry entry of its
\* extension's primitive was replaced by a primitive with another evaluator
C7_Witness ==
    /\ lastEval.done
    /\ lastEval.outcome = "true"
    /\ \E i \in DOMAIN blocks[lastEval.block].extensions :
           LET ext == blocks[lastEval.block].extensions[i]
           IN  /\ registry[ext.primitive_name] # ext.primitive
               /\ heap[registry[ext.primitive_name]].evaluator
                      # heap[ext.primitive].evaluator

(***************************************************************************)
(* Playbook.evaluate (SpecPlaybook).                                       *)
(***************************************************************************)
\* the rules the last Playbook.evaluate call was made on
RulesAtCall == SubSeq(rules, 1, lastPlaybook.nrules)

\* the names of the rules of a category that returned true, in rule order
RECURSIVE TriggeredNames(_, _, _)
TriggeredNames(rs, ctx, cat) ==
    IF rs = <<>> THEN <<>>
    ELSE LET rest == TriggeredNames(Tail(rs), ctx, cat)
         IN  IF Head(rs).category = cat
                /\ RuleBlockEvaluate(Head(rs), heap, ctx).outcome = "true"
             THEN <<Head(rs).name>> \o rest
             ELSE rest

\* C8: when Playbook.evaluate returns, its result holds for each category
\* exactly the names of the RuleBlocks of that category whose evaluate
\* returned true, in the order the rules were added; a rule that evaluated
\* false never appears.
C8_TriggeredNamesInOrder ==
    (lastPlaybook.done /\ ~lastPlaybook.raised) =>
        \A cat \in RuleCategory :
            DictGet(lastPlaybook.result, cat, <<>>)
                = TriggeredNames(RulesAtCall, lastPlaybook.ctx, cat)

\* two ENTRY rules, A evaluated true and B false: result[ENTRY] = ["A"]
C8_Witness ==
    /\ lastPlaybook.done
    /\ ~lastPlaybook.raised
    /\ lastPlaybook.outcomes =
           <<[name |-> "A", category |-> "ENTRY", outcome |-> "true"],
             [name |-> "B", category |-> "ENTRY", outcome |-> "false"]>>
    /\ lastPlaybook.result = [c \in {"ENTRY"} |-> <<"A">>]

\* C9 as stated: when the evaluation of one RuleBlock raises,
\* Playbook.evaluate still evaluates the sibling RuleBlocks after it and
\* returns, the failed block counted as not triggered.
C9_SiblingsIsolated ==
    (/\ lastPlaybook.done
     /\ \E i \in DOMAIN lastPlaybook.outcomes :
            /\ lastPlaybook.outcomes[i].outcome = "raise"
            /\ i < lastPlaybook.nrules)
        => (/\ ~lastPlaybook.raised
            /\ Len(lastPlaybook.outcomes) = lastPlaybook.nrules)

\* C10: when Playbook.evaluate returns, the keys of its result are exactly
\* the categories that have a RuleBlock in the playbook: a category whose
\* rules all evaluated false is present with an empty list, a category with
\* no RuleBlock is absent.
C10_KeysAreCategories ==
    (lastPlaybook.done /\ ~lastPlaybook.raised) =>
        DOMAIN lastPlaybook.result
            = {RulesAtCall[i].category : i \in DOMAIN RulesAtCall}

\* a playbook with an ENTRY rule that evaluated false and a RISK rule that
\* evaluated true: ENTRY is present and empty, EXIT is absent
C10_Witness ==
    /\ lastPlaybook.done
    /\ ~lastPlaybook.raised
    /\ DOMAIN lastPlaybook.result = {"ENTRY", "RISK"}
    /\ lastPlaybook.result["ENTRY"] = <<>>
    /\ lastPlaybook.result["RISK"] # <<>>

(***************************************************************************)
(* RuleBlock construction and the registry (SpecBuild, Spec).              *)
(***************************************************************************)
ExtensionsOf(block) == {block.extensions[i] : i \in DOMAIN block.extensions}

\* the primitive names a skeleton's extensions use
PrimitivesNamed(skeleton) ==
    {e.primitive : e \in Range(DictGet(skeleton, "extensions", <<>>))}

\* C11: constructing a RuleBlock with an extension that names a primitive
\* absent from the registry fails at construction and adds no RuleBlock;
\* every extension of every RuleBlock that exists holds a Primitive object
\* of the name it was given, so evaluate never meets an unknown primitive.
C11_UnknownPrimitiveFailsConstruction ==
    /\ \A i \in DOMAIN blocks : \A ext \in ExtensionsOf(blocks[i]) :
           /\ ext.primitive \in DOMAIN heap
           /\ heap[ext.primitive].name = ext.primitive_name
           /\ ext.primitive_name \in DOMAIN registry
    /\ (lastNew.done /\ ~(PrimitivesNamed(lastNew.skeleton) \subseteq lastNew.names))
           => (~lastNew.ok /\ ~lastNew.added)

\* skeleton D (account_comparison, then the unknown moving_average) was
\* constructed with account_comparison registered: it failed, at its
\* second extension, and there is no RuleBlock
C11_Witness ==
    /\ lastNew.done
    /\ lastNew.skeleton = SkeletonD
    /\ "account_comparison" \in lastNew.names
    /\ ~lastNew.ok
    /\ blocks = <<>>

\* the extension ids the leaves of a condition tree name
RECURSIVE LeafIds(_)
LeafIds(n) ==
    IF n.kind = "str" THEN {n.id}
    ELSE IF n.kind # "dict" THEN {}
    ELSE UNION {UNION {LeafIds(n.d[k][i]) : i \in DOMAIN n.d[k]} : k \in DOMAIN n.d}

\* C12 as stated: a RuleBlock whose tree has a leaf id that none of its
\* extensions has is rejected at construction, so every leaf of every
\* constructed RuleBlock names one of its extensions.
C12_LeavesAreDeclared ==
    \A i \in DOMAIN blocks :
        LeafIds(blocks[i].conditions) \subseteq {e.id : e \in ExtensionsOf(blocks[i])}

\* the fields each Primitive object requires, as sets
RequiredFields(h) == [i \in DOMAIN h |-> Range(h[i].required_account_fields)]

\* C13 as stated: a failed RuleBlock construction leaves the
\* required_account_fields of every primitive as they were before it.
C13_RejectedWholesale ==
    (lastNew.done /\ ~lastNew.ok) =>
        RequiredFields(lastNew.after) = RequiredFields(lastNew.before)

NoDuplicates(l) == Cardinality(Range(l)) = Len(l)

\* C14 as stated: in every reachable state the required_account_fields of
\* every registered primitive has no duplicate and holds every field /
\* fields value of every Extension constructed on that primitive.
C14_FieldsDeduplicatedAndComplete ==
    \A n \in DOMAIN registry :
        /\ NoDuplicates(heap[registry[n]].required_account_fields)
        /\ \A c \in constructed :
               c[1] = registry[n] =>
                   c[2] \in Range(heap[registry[n]].required_account_fields)

\* What does hold: the list of a primitive holds the fields of the
\* Extensions constructed on it, and has no duplicate once an Extension was
\* constructed on it or when it was constructed without one.
C14_AfterExtension ==
    \A p \in DOMAIN heap :
        /\ \A c \in constructed :
               c[1] = p => c[2] \in Range(heap[p].required_account_fields)
        /\ (\E c \in constructed : c[1] = p)
               => NoDuplicates(heap[p].required_account_fields)

\* C15 as stated: a register call under a name that is registered does not
\* silently replace the primitive: the registry keeps the old one, or the
\* call is flagged as a configuration hazard.
C15_NoSilentReplace ==
    [][\A n \in DOMAIN registry :
           registry'[n] # registry[n] => hazards' > hazards]_vars

(***************************************************************************)
(* ContextBuilder.hydrate (SpecHydrate).                                   *)
(***************************************************************************)
\* the `field` params of a list of extensions
FieldParams(l) ==
    {e.params.field : e \in {x \in Range(l) : "field" \in DOMAIN x.params}}

\* the account fields a hydrate call is to fetch: those of the descriptor,
\* or without a descriptor those of the extensions, and the global ones
FieldsToFetch(in) ==
    (IF in.skeleton.given THEN Range(in.skeleton.account_fields)
     ELSE IF in.extensions.given THEN FieldParams(in.extensions.list)
     ELSE {})
        \cup Range(in.globals)

\* C16: when the fields to fetch are some, hydrate calls the account
\* provider exactly once, with exactly those fields, and the context it
\* returns holds the provider's snapshot under `account`; when they are
\* none it calls no provider and returns the base context with no account
\* entry added.
C16_OneAccountCall ==
    hydrateOut.done =>
        IF FieldsToFetch(hydrateIn) = {}
        THEN /\ hydrateOut.accountCalls = <<>>
             /\ ~hydrateOut.raised
             /\ "account" \in DOMAIN hydrateOut.context
                    <=> "account" \in DOMAIN hydrateIn.base
             /\ "account" \in DOMAIN hydrateIn.base
                    => hydrateOut.context["account"] = hydrateIn.base["account"]
        ELSE /\ hydrateOut.accountCalls = <<FieldsToFetch(hydrateIn)>>
             /\ ~hydrateOut.raised =>
                    /\ "account" \in DOMAIN hydrateOut.context
                    /\ hydrateOut.context["account"]
                           = get_snapshot(FieldsToFetch(hydrateIn))

\* no descriptor, an extension on `equity`, the global fields buying_power
\* and cash, a base context with an account of its own: one call for the
\* three fields, and their snapshot replaces the account
C16_Witness ==
    /\ hydrateOut.done
    /\ ~hydrateOut.raised
    /\ ~hydrateIn.skeleton.given
    /\ "account" \in DOMAIN hydrateIn.base
    /\ hydrateOut.accountCalls = <<{"equity", "buying_power", "cash"}>>
    /\ DOMAIN hydrateOut.context["account"] = {"equity", "buying_power", "cash"}
    /\ hydrateOut.context["account"]["equity"] = PyNone

\* C17 as stated: when history metrics are requested and a user-action
\* provider is configured, hydrate calls it exactly once with the metrics
\* and the context holds the returned map under `history`.
C17_HistoryFetched ==
    (/\ hydrateOut.done
     /\ ~hydrateOut.raised
     /\ hydrateIn.hasActionProvider
     /\ hydrateIn.metrics # {})
        => (/\ hydrateOut.historyCalls = <<hydrateIn.metrics>>
            /\ "history" \in DOMAIN hydrateOut.context)

(***************************************************************************)
(* The market engine (SpecEngine).                                         *)
(***************************************************************************)
\* the ticks a task has handled
TicksOf(e) == {i \in DOMAIN tickLog : tickLog[i].playbook = e}

\* C18: a tick whose account provider fails during hydration gets no
\* context from hydrate, has its playbook not evaluated, and has no payload
\* queued or sent to any client; and the task is left listening for the
\* next market message once that tick is its latest.
C18_FailedHydrationSkipsTick ==
    \A i \in DOMAIN tickLog :
        tickLog[i].providerFailed =>
            /\ ~tickLog[i].hydrated
            /\ ~tickLog[i].evaluated
            /\ ~tickLog[i].queued
            /\ \A k \in DOMAIN published : published[k].tick # i
            /\ (\A j \in TicksOf(tickLog[i].playbook) : j <= i)
                   => engines[tickLog[i].playbook].pc = "listen"

\* the first tick of a task fails at the provider; the same task handles
\* the next message and its payload reaches a client
C18_Witness ==
    /\ Len(tickLog) = 2
    /\ tickLog[1].providerFailed
    /\ tickLog[2].playbook = tickLog[1].playbook
    /\ tickLog[2].queued
    /\ \E k \in DOMAIN published : published[k].tick = 2

\* C19 as stated: every payload sent to a client was computed from the
\* playbook that is the current one at the time of the send; the result of
\* a cycle of an earlier playbook is not published once a new playbook has
\* been started.
C19_OnlyCurrentPlaybookPublished ==
    \A k \in DOMAIN published : published[k].playbook = published[k].current

(***************************************************************************)
(* account_comparison (SpecCompare).                                       *)
(***************************************************************************)
\* C20: whenever the params' field is not in the context's account, the
\* context having no account included, account_comparison raises: it returns
\* neither true nor false, whatever the operator and the value.
C20_MissingFieldRaises ==
    (/\ compareOut.done
     /\ "field" \in DOMAIN compareIn.params
     /\ \/ ~compareIn.ctx.hasAccount
        \/ compareIn.params.field \notin DOMAIN compareIn.ctx.account)
        => compareOut.outcome = "raise"

\* `equity > 0` on an account that holds cash only: raised, where the same
\* call on a present field would return a boolean
C20_Witness ==
    /\ compareOut.done
    /\ compareIn.ctx.hasAccount
    /\ DOMAIN compareIn.ctx.account = {"cash"}
    /\ compareIn.params = [field |-> "equity", op |-> ">", value |-> PyInt(0)]
    /\ compareOut.outcome = "raise"

(***************************************************************************)
(* RuleConflictChecker (SpecConflict).                                     *)
(***************************************************************************)
\* C21 as stated: for an account_comparison extension with a numeric
\* threshold and a snapshot holding its field, check_conflict reports a
\* conflict exactly when account_comparison returns false on that snapshot;
\* an extension of another primitive yields no conflict.
C21_ConflictIffRuleFalse ==
    callOut.done =>
        IF callIn.extension.name = "account_comparison"
        THEN callIn.extension.params.field \in DOMAIN callIn.snapshot
                 => /\ ~callOut.result.raised
                    /\ callOut.result.conflicts # <<>>
                           <=> account_comparison_evaluator(
                                   callIn.extension.params,
                                   Context(TRUE, callIn.snapshot, EmptyDict)) = "false"
        ELSE callOut.result = [raised |-> FALSE, conflicts |-> <<>>]

(***************************************************************************)
(* comparison (SpecComparison).                                            *)
(***************************************************************************)
\* the left operand read from the context: 0 when the field is missing
LeftOperand == DictGet(callIn.ctx.market, callIn.params.left, PyInt(0))

\* C22 as stated: with a left operand that is an int, a decimal number or a
\* numeric str and a numeric right operand, comparison returns the
\* arithmetic relation `left op right` for each of > < == >= <=.
C22_ArithmeticRelation ==
    (/\ callOut.done
     /\ callIn.params.op \in Ops
     /\ LeftOperand.t \in {"int", "float", "str"})
        => callOut.outcome
               = Outcome(Compare(LeftOperand.v, callIn.params.op, callIn.params.right.v))

(***************************************************************************)
(* temporal_gate (SpecGate).                                               *)
(***************************************************************************)
\* the current time of the call, in seconds since midnight
CurrentSeconds == parse_time_to_seconds(Get(callIn.ctx.market, "current_time"))

\* C23 as stated: with start_time and end_time both given, 0 included, the
\* gate passes iff start_time <= current time <= end_time; otherwise with a
\* cooldown_end given it passes iff current time >= cooldown_end; with
\* neither it passes.
C23_GateWindow ==
    callOut.done =>
        callOut.outcome =
            IF {"start_time", "end_time"} \subseteq DOMAIN callIn.params
            THEN Outcome(/\ callIn.params.start_time.v <= CurrentSeconds
                         /\ CurrentSeconds <= callIn.params.end_time.v)
            ELSE IF "cooldown_end" \in DOMAIN callIn.params
            THEN Outcome(CurrentSeconds >= callIn.params.cooldown_end.v)
            ELSE "true"

(***************************************************************************)
(* rate_limit (SpecRate).                                                  *)
(***************************************************************************)
\* the history list of the call: empty without history or metric
HistoryOfCall ==
    IF "history" \in DOMAIN callIn.ctx.market
          /\ callIn.params.metric \in DOMAIN callIn.ctx.market["history"]
    THEN callIn.ctx.market["history"][callIn.params.metric]
    ELSE <<>>

\* the entries of the history whose age is within the window
Recent ==
    {i \in DOMAIN HistoryOfCall :
        CurrentSeconds - parse_time_to_seconds(HistoryOfCall[i])
            <= callIn.params.window_minutes * SecondsPerMinute}

\* C24: rate_limit passes iff the number of timestamps of
\* history[metric] whose age is at most window_minutes * 60 seconds is at
\* most max; older ones are not counted, and a missing metric or history
\* counts as no event.
C24_CountsWindow ==
    callOut.done =>
        callOut.outcome = Outcome(Cardinality(Recent) <= callIn.params.max)

\* history [t - 100, t - 4000] at t = 4000, window 60 minutes, max 1: one
\* timestamp counted, and the limit passes
C24_Witness ==
    /\ callOut.done
    /\ HistoryOfCall = <<PyInt(3900), PyInt(0)>>
    /\ CurrentSeconds = 4000
    /\ callIn.params.window_minutes = 60
    /\ callIn.params.max = 1
    /\ Cardinality(Recent) = 1
    /\ callOut.outcome = "true"

(***************************************************************************)
(* sequence (SpecSequence).                                                *)
(***************************************************************************)
\* the names of the events of the call that lie within its window
EventsInWindow ==
    LET all == DictGet(callIn.ctx.market, "event_history", <<>>)
        kept == {i \in DOMAIN all :
                    \/ "window_minutes" \notin DOMAIN callIn.params
                    \/ CurrentSeconds - parse_time_to_seconds(all[i][1])
                           <= callIn.params.window_minutes * SecondsPerMinute}
    IN  [i \in kept |-> all[i][2]]

\* pattern occurs in the events, in order, not necessarily contiguously
OccursInOrder(pattern, events) ==
    \E f \in [DOMAIN pattern -> DOMAIN events] :
        /\ \A i \in DOMAIN pattern : events[f[i]] = pattern[i]
        /\ \A i, j \in DOMAIN pattern : i < j => f[i] < f[j]

\* C25 as stated: sequence returns true iff the pattern occurs in the
\* window-filtered events as an order-preserving subsequence, and false
\* otherwise, for every pattern and event list, the empty ones included.
C25_SubsequenceMatch ==
    callOut.done =>
        callOut.outcome = Outcome(OccursInOrder(callIn.params.pattern, EventsInWindow))

C27_ExtensionKeepsPrimitive ==
    [][\A n \in DOMAIN registry :
           registry'[n] # registry[n] =>
               /\ blocks' = blocks
               /\ \A i \in DOMAIN heap : heap'[i] = heap[i]
               /\ \A b \in DOMAIN blocks : \A ctx \in Contexts :
                      EvalOutcome(b, ctx)' = EvalOutcome(b, ctx)
               /\ registry'[n] \in DOMAIN heap' \ DOMAIN heap
               /\ heap'[registry'[n]].required_account_fields = <<>>
               /\ Extension(n, EmptyDict, "new", registry', heap').ext.primitive
                      = registry'[n]]_vars

\* an Extension holds a Primitive object that is no longer the registry's
\* entry for its name; the old object has the field the Extension added,
\* the new one has none
C27_Witness ==
    \E b \in DOMAIN blocks : \E ext \in ExtensionsOf(blocks[b]) :
        /\ registry[ext.primitive_name] # ext.primitive
        /\ heap[ext.primitive].required_account_fields # <<>>
        /\ heap[registry[ext.primitive_name]].required_account_fields = <<>>

\* the latest message before the i-th at which a tick read the flag
LastRead(i) ==
    LET reads == {j \in 1..(i - 1) : tickLog[j].consumed}
    IN  IF reads = {} THEN 0 ELSE CHOOSE j \in reads : \A k \in reads : k <= j

\* the user-activity messages handled since that read
UsersSince(i) == {k \in Handled("user") : LastRead(i) < k /\ k < i}

\* the ticks that report user message k
ReportedBy(k) ==
    {i \in DOMAIN tickLog :
        tickLog[i].queued /\ tickLog[i].payload.action /\ k \in UsersSince(i)}

C29_ReturnsConnectedOrRaises ==
    /\ Len(conn.tries) <= conn.max_retries
    /\ \A n \in DOMAIN conn.delays : conn.delays[n] = conn.base_delay * Pow2(n - 1)
    /\ conn.outcome = "returned" => conn.connected
    /\ (conn.done /\ \A n \in DOMAIN conn.tries : conn.tries[n] # "ok")
           => conn.outcome = "raised"

(***************************************************************************)
(* RuleParser (SpecRepair).                                                *)
(***************************************************************************)
\* the repair calls made to the LLM: every answer but the first
RepairCalls == Len(repair.raws) - 1

\* C30: _validate_with_repair asks the LLM for at most max_repairs repairs
\* and its loop runs at most max_repairs + 1 times; what it returns has
\* passed validation; it raises "invalid after repair" exactly when the
\* output is still invalid after max_repairs repairs; and parse gives a
\* Playbook only for a validated response of status ok, raising otherwise.
C30_RepairBounded ==
    /\ RepairCalls <= repair.max_repairs
    /\ repair.attempt = RepairCalls
    /\ repair.validated # "none" =>
           (Validates(repair.validated) /\ repair.validated = repair.raws[Len(repair.raws)])
    /\ repair.error = "LLM output invalid after repair"
           <=> /\ repair.done
               /\ RepairCalls = repair.max_repairs
               /\ \A i \in DOMAIN repair.raws : ~Validates(repair.raws[i])
    /\ repair.outcome = "playbook" =>
           (repair.validated # "none" /\ StatusOf(repair.validated) = "ok")
    /\ (repair.validated # "none" /\ StatusOf(repair.validated) # "ok")
           => (repair.outcome = "raised" /\ repair.error = "Cannot parse playbook")
    /\ repair.outcome = "running" =>
           (repair.attempt <= repair.max_repairs /\ ENABLED NextRepair)

\* two invalid answers, then, at the last repair allowed, a response that
\* asks for clarification: validated, and parse raised
C30_Witness ==
    /\ repair.done
    /\ repair.max_repairs = 2
    /\ repair.raws = <<"garbage", "flat", "needs_clarification">>
    /\ repair.validated = "needs_clarification"
    /\ repair.outcome = "raised"

====
